---- MODULE Spec2Model ----
(***************************************************************************)
(* rusted-chain: three LLM backend adapters (Claude, Gemini, OpenAI) and   *)
(* the bounded tool-execution loop (run) and single-shot call (invoke) of  *)
(* the three model classes of src/src/lib.rs.                              *)
(***************************************************************************)
EXTENDS Integers, Sequences, FiniteSets, TLC

VARIABLES
    provider,      \* which model class the object is: "Gemini", "OpenAI", "Claude"
    tools,         \* self.tools : Option<Vec<Py<PyAny>>>
    pc,            \* position of the current top-level call
    mode,          \* "none", "run" or "invoke": the entry point of the current call
    query,         \* the query argument of the current call
    client,        \* the adapter build_client() configured for the current call
    tools_dict,    \* run(): the PyDict name -> tool built before the loop
    conversation,  \* run(): the local Vec of turns
    iteration,     \* run(): the loop counter _iteration
    pending,       \* run(): the tool_call and tool_fn of the current match arm
    result,        \* the PyResult the call returned: None while running
    exchanges,     \* number of outbound requests the transport has carried
    last_sent,     \* the conversation of the latest outbound request
    last_received, \* the transport outcome of the latest exchange
    calls,         \* log of tool_fn.call / call0 executions and what they did
    lookups,       \* log of tools_dict.get_item names
    variety,       \* number of exchanges/executions that left the default script
    other,         \* the frame of a second call suspended on another thread, if any
    model          \* self.model : Option<String>, the identifier as its characters

vars == <<provider, tools, pc, mode, query, client, tools_dict, conversation, iteration,
          pending, result, exchanges, last_sent, last_received, calls, lookups,
          variety, other, model>>

(***************************************************************************)
(* Bounds of the model.                                                    *)
(***************************************************************************)
MaxTools == 2        \* longest self.tools list
MaxVariety == 1      \* ways one scenario may leave the default scenario
MaxSegments == 3     \* longest response content in the adapter specification

(***************************************************************************)
(* Option<T> and Result<T, E>.                                             *)
(***************************************************************************)
None == <<>>
Some(x) == <<x>>
IsSome(o) == Len(o) = 1
Unwrap(o) == o[1]

Ok(x) == [ok |-> TRUE, val |-> x]
Err(e) == [ok |-> FALSE, err |-> e]

(***************************************************************************)
(* serde_json::Value.  Objects are functions from keys to values; their    *)
(* keys serialize in sorted order (BTreeMap).                              *)
(***************************************************************************)
JNull == [kind |-> "null"]
JNum(n) == [kind |-> "num", num |-> n]
JStr(s) == [kind |-> "str", str |-> s]
JArr(s) == [kind |-> "arr", arr |-> s]
JObj(f) == [kind |-> "obj", obj |-> f]

KeyOrder == <<"a", "b", "result">>

RECURSIVE to_string(_), to_string_arr(_, _), to_string_obj(_, _, _)
to_string(v) ==
    CASE v.kind = "null" -> "null"
      [] v.kind = "num" -> ToString(v.num)
      [] v.kind = "str" -> "\"" \o v.str \o "\""
      [] v.kind = "arr" -> "[" \o to_string_arr(v.arr, 1) \o "]"
      [] v.kind = "obj" -> "{" \o to_string_obj(v.obj, 1, TRUE) \o "}"

to_string_arr(s, i) ==
    IF i > Len(s) THEN ""
    ELSE (IF i > 1 THEN "," ELSE "") \o to_string(s[i]) \o to_string_arr(s, i + 1)

to_string_obj(f, k, first) ==
    IF k > Len(KeyOrder) THEN ""
    ELSE IF KeyOrder[k] \in DOMAIN f
         THEN (IF first THEN "" ELSE ",") \o "\"" \o KeyOrder[k] \o "\":"
              \o to_string(f[KeyOrder[k]]) \o to_string_obj(f, k + 1, FALSE)
         ELSE to_string_obj(f, k + 1, first)

\* The values the model draws tool arguments and tool results from.
ObjArgs == JObj([a |-> JNum(2), b |-> JNum(2)])
ArgValues == {ObjArgs, JNum(7), JArr(<<JNum(2), JNum(2)>>), JNull}
ResultValues == {JObj([result |-> JNum(4)]), JObj([a |-> JNum(1)]), JNum(42),
                 JStr("ok"), JArr(<<JNum(4)>>), JNull}
LoopResults == {JObj([result |-> JNum(4)]), JNum(42), JArr(<<JNum(4)>>)}
JsonValues == ArgValues \cup ResultValues
                \cup {JObj([result |-> v]) : v \in ResultValues}

\* serde_json::from_str: the value whose text is s, or a parse failure.
from_str(s) ==
    IF \E v \in JsonValues : to_string(v) = s
    THEN Ok(CHOOSE v \in JsonValues : to_string(v) = s)
    ELSE Err("expected value")

unwrap_or_empty_object(r, d) == IF r.ok THEN r.val ELSE JObj([nm \in {} |-> JNull])

unwrap_or(r, d) == IF r.ok THEN r.val ELSE d

wrap_tool_result_always(value) == JObj([result |-> value])

wrap_tool_result(value) ==
    IF value.kind = "obj" THEN value ELSE JObj([result |-> value])

(***************************************************************************)
(* The transport: what one HTTP POST can come back with.  parsed is the    *)
(* body as the response type deserializes it, None when it does not.       *)
(***************************************************************************)
NetErr == [net |-> "err", status |-> 0, text |-> "connection refused", parsed |-> None]
Http(status, text, parsed) ==
    [net |-> "ok", status |-> status, text |-> text, parsed |-> parsed]

is_success(status) == status >= 200 /\ status <= 299

\* Abstract content segments a backend answers with, before wire encoding.
SegText(t) == [seg |-> "text", text |-> t]
SegCall(name, args) == [seg |-> "call", name |-> name, args |-> args]
SegResult == [seg |-> "result"]

ToolId(n, k) == "call_" \o ToString(n) \o "_" \o ToString(k)

(***************************************************************************)
(* Claude adapter (src/src/claude.rs).                                     *)
(***************************************************************************)
ClaudeText(t) == [type |-> "text", text |-> t]
ClaudeToolUse(id, name, input) ==
    [type |-> "tool_use", id |-> id, name |-> name, input |-> input]
ClaudeToolResult(id, content) ==
    [type |-> "tool_result", tool_use_id |-> id, content |-> content]
ClaudeMessage(role, content) == [role |-> role, content |-> content]

ClaudeResponseText(t) == [variant |-> "Text", text |-> t]
ClaudeResponseToolCall(name, args, id) ==
    [variant |-> "ToolCall", tool_call |-> [name |-> name, args |-> args, id |-> id]]

\* MessagesResponse bodies: a content array encoding the segments.
ClaudeBlock(s, n, k) ==
    CASE s.seg = "text" -> ClaudeText(s.text)
      [] s.seg = "call" -> ClaudeToolUse(ToolId(n, k), s.name, s.args)
      [] s.seg = "result" -> ClaudeToolResult(ToolId(n, k), JNull)
MessagesResponse(segs, n) ==
    [content |-> [k \in 1..Len(segs) |-> ClaudeBlock(segs[k], n, k)]]

claude_scan_defaulting(content, i, text_response, assistant_message) ==
    LET tool_uses == {k \in i..Len(content) : content[k].type = "tool_use"}
        texts == {k \in i..Len(content) : content[k].type = "text"}
    IN IF tool_uses # {}
       THEN LET block == content[CHOOSE k \in tool_uses : \A j \in tool_uses : k <= j]
            IN Ok(<<ClaudeResponseToolCall(block.name, block.input, block.id),
                    assistant_message>>)
       ELSE IF texts # {}
       THEN Ok(<<ClaudeResponseText(content[CHOOSE k \in texts :
                                               \A j \in texts : k <= j].text),
                 assistant_message>>)
       ELSE Ok(<<ClaudeResponseText(""), assistant_message>>)

RECURSIVE claude_scan_last_text(_, _, _, _)
claude_scan_last_text(content, i, text_response, assistant_message) ==
    IF i > Len(content)
    THEN IF IsSome(text_response)
         THEN Ok(<<ClaudeResponseText(Unwrap(text_response)), assistant_message>>)
         ELSE Err("No response generated.")
    ELSE LET block == content[i] IN
         CASE block.type = "tool_use" ->
                Ok(<<ClaudeResponseToolCall(block.name, block.input, block.id),
                     assistant_message>>)
           [] block.type = "text" ->
                claude_scan_last_text(content, i + 1, Some(block.text),
                                      assistant_message)
           [] OTHER -> claude_scan_last_text(content, i + 1, text_response,
                                             assistant_message)

\* The scan of claude.rs:157-183 from block i on, text_response so far.
RECURSIVE claude_scan(_, _, _, _)
claude_scan(content, i, text_response, assistant_message) ==
    IF i > Len(content)
    THEN IF IsSome(text_response)
         THEN Ok(<<ClaudeResponseText(Unwrap(text_response)), assistant_message>>)
         ELSE Err("No response generated.")
    ELSE LET block == content[i] IN
         CASE block.type = "tool_use" ->
                Ok(<<ClaudeResponseToolCall(block.name, block.input, block.id),
                     assistant_message>>)
           [] block.type = "text" ->
                claude_scan(content, i + 1,
                            IF IsSome(text_response) THEN text_response
                            ELSE Some(block.text),
                            assistant_message)
           [] OTHER -> claude_scan(content, i + 1, text_response, assistant_message)

claude_exchange_keeping_tool_uses_only(messages, w) ==
    IF w.net = "err" THEN Err("Failed to send request: " \o w.text)
    ELSE IF ~is_success(w.status)
    THEN Err("API Error " \o ToString(w.status) \o ": " \o w.text)
    ELSE IF ~IsSome(w.parsed) THEN Err("Failed to parse response: " \o w.text)
    ELSE LET response_body == Unwrap(w.parsed)
             assistant_message ==
                 ClaudeMessage("assistant",
                               IF \E k \in 1..Len(response_body.content) :
                                      response_body.content[k].type = "tool_use"
                               THEN SelectSeq(response_body.content,
                                              LAMBDA b : b.type = "tool_use")
                               ELSE response_body.content)
         IN claude_scan(response_body.content, 1, None, assistant_message)

claude_exchange(messages, w) ==
    IF w.net = "err" THEN Err("Failed to send request: " \o w.text)
    ELSE IF ~is_success(w.status)
    THEN Err("API Error " \o ToString(w.status) \o ": " \o w.text)
    ELSE IF ~IsSome(w.parsed) THEN Err("Failed to parse response: " \o w.text)
    ELSE LET response_body == Unwrap(w.parsed)
             assistant_message == ClaudeMessage("assistant", response_body.content)
         IN claude_scan(response_body.content, 1, None, assistant_message)

claude_request(prompt) == <<ClaudeMessage("user", <<ClaudeText(prompt)>>)>>

claude_invoke_with_response(prompt, w) ==
    LET r == claude_exchange(claude_request(prompt), w)
    IN IF r.ok THEN Ok(r.val[1]) ELSE r

(***************************************************************************)
(* Gemini adapter (src/src/gemini.rs).  Part is an untagged enum: the      *)
(* variant is the field the object carries.                                *)
(***************************************************************************)
PartText(t) == [text |-> t]
PartFunctionCall(name, args) == [functionCall |-> [name |-> name, args |-> args]]
PartFunctionResponse(name, response) ==
    [functionResponse |-> [name |-> name, response |-> response]]
IsPartText(part) == "text" \in DOMAIN part
IsPartFunctionCall(part) == "functionCall" \in DOMAIN part
IsPartFunctionResponse(part) == "functionResponse" \in DOMAIN part
GeminiContent(parts, role) == [parts |-> parts, role |-> role]

GeminiResponseText(t) == [variant |-> "Text", text |-> t]
GeminiResponseToolCall(name, args) ==
    [variant |-> "ToolCall", tool_call |-> [name |-> name, args |-> args]]

\* GenerateContentResponse bodies.
GeminiPart(s) ==
    CASE s.seg = "text" -> PartText(s.text)
      [] s.seg = "call" -> PartFunctionCall(s.name, s.args)
      [] s.seg = "result" -> PartFunctionResponse("add", JNull)
Candidate(segs) ==
    [content |-> [parts |-> [k \in 1..Len(segs) |-> GeminiPart(segs[k])],
                  role |-> Some("model")]]
GenerateContentResponse(segs) == [candidates |-> Some(<<Candidate(segs)>>)]
GeminiNoCandidates == {[candidates |-> None], [candidates |-> Some(<<>>)]}

gemini_send_request(w) ==
    IF w.net = "err" THEN Err("Failed to send request: " \o w.text)
    ELSE IF ~is_success(w.status)
    THEN Err("API Error " \o ToString(w.status) \o ": " \o w.text)
    ELSE IF ~IsSome(w.parsed) THEN Err("Failed to parse response: " \o w.text)
    ELSE Ok(Unwrap(w.parsed))

\* The scan of gemini.rs:270-286 from part i on.
RECURSIVE gemini_exchange_scan(_, _, _)
gemini_exchange_scan(parts, i, assistant_content) ==
    IF i > Len(parts) THEN Err("No valid response from Gemini")
    ELSE LET part == parts[i] IN
         CASE IsPartText(part) ->
                Ok(<<GeminiResponseText(part.text), assistant_content>>)
           [] IsPartFunctionCall(part) ->
                Ok(<<GeminiResponseToolCall(part.functionCall.name,
                                            part.functionCall.args),
                     assistant_content>>)
           [] OTHER -> gemini_exchange_scan(parts, i + 1, assistant_content)

gemini_exchange(conversation_, w) ==
    LET sr == gemini_send_request(w) IN
    IF ~sr.ok THEN sr
    ELSE LET response == sr.val IN
         IF IsSome(response.candidates) /\ Len(Unwrap(response.candidates)) > 0
         THEN LET candidate == Unwrap(response.candidates)[1]
                  assistant_content ==
                      GeminiContent(candidate.content.parts, candidate.content.role)
              IN gemini_exchange_scan(candidate.content.parts, 1, assistant_content)
         ELSE Err("No valid response from Gemini")

gemini_request(prompt) == <<GeminiContent(<<PartText(prompt)>>, Some("user"))>>

\* The scan of gemini.rs:202-215 from part i on.
RECURSIVE gemini_invoke_scan(_, _)
gemini_invoke_scan(parts, i) ==
    IF i > Len(parts) THEN Err("No valid response from Gemini")
    ELSE LET part == parts[i] IN
         CASE IsPartText(part) -> Ok(GeminiResponseText(part.text))
           [] IsPartFunctionCall(part) ->
                Ok(GeminiResponseToolCall(part.functionCall.name,
                                          part.functionCall.args))
           [] OTHER -> gemini_invoke_scan(parts, i + 1)

gemini_invoke_with_response(prompt, w) ==
    LET sr == gemini_send_request(w) IN
    IF ~sr.ok THEN sr
    ELSE LET response == sr.val IN
         IF IsSome(response.candidates) /\ Len(Unwrap(response.candidates)) > 0
         THEN gemini_invoke_scan(Unwrap(response.candidates)[1].content.parts, 1)
         ELSE Err("No valid response from Gemini")

(***************************************************************************)
(* OpenAI adapter (src/src/openai.rs).                                     *)
(***************************************************************************)
OpenAIMessage(role, content, tool_call_id, tool_calls) ==
    [role |-> role, content |-> content, name |-> None,
     tool_call_id |-> tool_call_id, tool_calls |-> tool_calls]
ToolCallResponse(id, name, arguments) ==
    [id |-> id, type |-> "function",
     function |-> [name |-> name, arguments |-> arguments]]

OpenAIResponseText(t) == [variant |-> "Text", text |-> t]
OpenAIResponseToolCall(name, args, id) ==
    [variant |-> "ToolCall", tool_call |-> [name |-> name, args |-> args, id |-> id]]

\* ChatCompletionResponse bodies: the first text segment is the content
\* string, the call segments are the tool_calls array.
SegIndices(segs, kind) == {k \in 1..Len(segs) : segs[k].seg = kind}
RECURSIVE SegCalls(_, _, _)
SegCalls(segs, n, k) ==
    IF k > Len(segs) THEN <<>>
    ELSE IF segs[k].seg = "call"
         THEN <<ToolCallResponse(ToolId(n, k), segs[k].name, to_string(segs[k].args))>>
              \o SegCalls(segs, n, k + 1)
         ELSE SegCalls(segs, n, k + 1)
MessageResponse(segs, n) ==
    [role |-> "assistant",
     content |-> IF SegIndices(segs, "text") = {} THEN None
                 ELSE Some(segs[CHOOSE k \in SegIndices(segs, "text") :
                                  \A j \in SegIndices(segs, "text") : k <= j].text),
     tool_calls |-> IF SegIndices(segs, "call") = {} THEN None
                    ELSE Some(SegCalls(segs, n, 1))]
ChatCompletionResponse(segs, n) == [choices |-> <<[message |-> MessageResponse(segs, n)]>>]
BadArguments == "{\"a\": 2,"
OpenAIOddBodies(n) ==
    {[choices |-> <<>>],
     [choices |-> <<[message |-> [role |-> "assistant", content |-> Some("4"),
                                  tool_calls |-> Some(<<>>)]]>>],
     [choices |-> <<[message |-> [role |-> "assistant", content |-> None,
                                  tool_calls |-> Some(<<ToolCallResponse(
                                      ToolId(n, 1), "add", BadArguments)>>)]]>>]}

openai_chat(messages, w) ==
    IF w.net = "err" THEN Err("Failed to send request: " \o w.text)
    ELSE IF ~is_success(w.status)
    THEN Err("API Error " \o ToString(w.status) \o ": " \o w.text)
    ELSE IF ~IsSome(w.parsed) THEN Err("Failed to parse response: " \o w.text)
    ELSE LET response_body == Unwrap(w.parsed) IN
         IF Len(response_body.choices) > 0
         THEN LET choice == response_body.choices[1]
                  assistant_message ==
                      OpenAIMessage(choice.message.role,
                                    IF IsSome(choice.message.content)
                                    THEN Unwrap(choice.message.content) ELSE "",
                                    None, choice.message.tool_calls)
              IN IF /\ IsSome(choice.message.tool_calls)
                    /\ Len(Unwrap(choice.message.tool_calls)) > 0
                 THEN LET tool_call == Unwrap(choice.message.tool_calls)[1]
                          args_value ==
                              unwrap_or(from_str(tool_call.function.arguments), JNull)
                      IN Ok(<<OpenAIResponseToolCall(tool_call.function.name,
                                                     args_value, tool_call.id),
                              assistant_message>>)
                 ELSE IF IsSome(choice.message.content)
                 THEN Ok(<<OpenAIResponseText(Unwrap(choice.message.content)),
                           assistant_message>>)
                 ELSE Err("No response generated.")
         ELSE Err("No response generated.")

openai_request(prompt) == <<OpenAIMessage("user", prompt, None, None)>>

openai_invoke_with_response(prompt, w) ==
    LET r == openai_chat(openai_request(prompt), w)
    IN IF r.ok THEN Ok(r.val[1]) ELSE r

(***************************************************************************)
(* The environment of one exchange: the transport outcomes a backend can   *)
(* produce for request number n of a call.                                 *)
(***************************************************************************)
Providers == {"Gemini", "OpenAI", "Claude"}

DefaultSegs == <<SegCall("add", ObjArgs)>>
LoopSegs ==
    {DefaultSegs,
     <<SegText("4")>>,
     <<SegCall("foo", ObjArgs)>>,
     <<SegCall("add", JNum(7))>>,
     <<SegText("thinking"), SegCall("add", ObjArgs)>>,
     <<SegCall("add", ObjArgs), SegText("4")>>,
     <<SegCall("add", ObjArgs), SegCall("add", ObjArgs)>>,
     <<SegText("4"), SegText("5")>>,
     <<SegResult>>,
     <<>>}

Body(p, segs, n) ==
    CASE p = "Claude" -> MessagesResponse(segs, n)
      [] p = "Gemini" -> GenerateContentResponse(segs)
      [] p = "OpenAI" -> ChatCompletionResponse(segs, n)

OddBodies(p, n) ==
    CASE p = "Claude" -> {}
      [] p = "Gemini" -> GeminiNoCandidates
      [] p = "OpenAI" -> OpenAIOddBodies(n)

Failures ==
    {NetErr, Http(500, "overloaded", None), Http(200, "<html>", None)}

DefaultWire(p, n) == Http(200, "json", Some(Body(p, DefaultSegs, n)))

Wire(p, n) ==
    Failures
      \cup {Http(200, "json", Some(Body(p, segs, n))) : segs \in LoopSegs}
      \cup {Http(200, "json", Some(b)) : b \in OddBodies(p, n)}

(***************************************************************************)
(* The Python side: tool objects and what calling one can do.              *)
(***************************************************************************)
AddTool == [id |-> 1, name |-> Some("add"), to_dict |-> Some(JStr("add"))]
DefaultTools == Some(<<AddTool>>)

ToolObjs ==
    {AddTool,
     [id |-> 2, name |-> Some("add"), to_dict |-> None],
     [id |-> 3, name |-> None, to_dict |-> Some(JStr("anon"))]}

PyOpaque == [kind |-> "pyobject"]
Returns(v) == [raises |-> FALSE, value |-> v]
Raises == [raises |-> TRUE, value |-> JNull]
DefaultOutcome == Returns(JObj([result |-> JNum(4)]))
ToolOutcomes == {Raises} \cup {Returns(v) : v \in LoopResults \cup {PyOpaque}}

depythonize(obj) == IF obj.kind = "pyobject" THEN Err("unsupported type") ELSE Ok(obj)

PyErr(exc, msg) == [exc |-> exc, msg |-> msg]

DefaultQuery == "What is 2+2?"
Queries == {DefaultQuery, "Capital of France?"}

(***************************************************************************)
(* lib.rs: the parts of run() and invoke() the three classes share in      *)
(* shape, dispatched on the class.                                         *)
(***************************************************************************)
MAX_TOOL_ITERATIONS_eleven == 10 + 1

MAX_TOOL_ITERATIONS == 10

\* Vec::push of a turn (lib.rs:323/350, 480/508, 635/662).
push_front(vec, turn) == <<turn>> \o vec

push(vec, turn) == Append(vec, turn)

\* The Text arm of the loop's match: return Ok(text) (lib.rs:326-328 ...).
text_arm_empty(text) == Ok("")

text_arm(text) == Ok(text)

build_tools_dict_keeping_nameless(list, i, dict) ==
    LET key(j) == IF IsSome(list[j].name) THEN Unwrap(list[j].name) ELSE ""
        keys == {key(j) : j \in i..Len(list)}
    IN [nm \in DOMAIN dict \cup keys |->
           IF nm \in keys
           THEN list[CHOOSE j \in i..Len(list) :
                       /\ key(j) = nm
                       /\ \A k \in i..Len(list) : key(k) = nm => k <= j]
           ELSE dict[nm]]

RECURSIVE build_tools_dict_first_wins(_, _, _)
build_tools_dict_first_wins(list, i, dict) ==
    IF i > Len(list) THEN dict
    ELSE LET tool_obj == list[i] IN
         IF IsSome(tool_obj.name) /\ Unwrap(tool_obj.name) \notin DOMAIN dict
         THEN build_tools_dict_first_wins(list, i + 1,
                  [nm \in DOMAIN dict \cup {Unwrap(tool_obj.name)} |->
                      IF nm = Unwrap(tool_obj.name) THEN tool_obj ELSE dict[nm]])
         ELSE build_tools_dict_first_wins(list, i + 1, dict)

\* lib.rs:289-299: the PyDict of the tools that have a __name__.
RECURSIVE build_tools_dict(_, _, _)
build_tools_dict(list, i, dict) ==
    IF i > Len(list) THEN dict
    ELSE LET tool_obj == list[i] IN
         IF IsSome(tool_obj.name)
         THEN build_tools_dict(list, i + 1,
                  [nm \in DOMAIN dict \cup {Unwrap(tool_obj.name)} |->
                      IF nm = Unwrap(tool_obj.name) THEN tool_obj ELSE dict[nm]])
         ELSE build_tools_dict(list, i + 1, dict)

EmptyDict == [nm \in {} |-> 0]

\* convert_tools (lib.rs:82-100): the schema of each tool, from its to_dict()
\* when it has one, Null when nothing converts.
convert_tools(t) ==
    IF IsSome(t)
    THEN [i \in 1..Len(Unwrap(t)) |->
             IF IsSome(Unwrap(t)[i].to_dict) THEN Unwrap(Unwrap(t)[i].to_dict)
             ELSE JNull]
    ELSE <<>>

\* build_client (lib.rs:222-235, 378-391, 534-547): with_tools only when
\* there are schemas.
build_client(t) ==
    LET tools_json == convert_tools(t)
    IN [tools |-> IF tools_json # <<>> THEN Some(tools_json) ELSE None]

tools_of(t) == IF IsSome(t) THEN Unwrap(t) ELSE <<>>

initial_conversation_continuing(p, q) ==
    CASE p = "Gemini" ->
           push(conversation, GeminiContent(<<PartText(q)>>, Some("user")))
      [] p = "OpenAI" -> push(conversation, OpenAIMessage("user", q, None, None))
      [] p = "Claude" -> push(conversation, ClaudeMessage("user", <<ClaudeText(q)>>))

initial_conversation_asking_twice(p, q) ==
    CASE p = "Gemini" -> <<GeminiContent(<<PartText(q)>>, Some("user")),
                           GeminiContent(<<PartText(q)>>, Some("user"))>>
      [] p = "OpenAI" -> <<OpenAIMessage("user", q, None, None),
                           OpenAIMessage("user", q, None, None)>>
      [] p = "Claude" -> <<ClaudeMessage("user", <<ClaudeText(q)>>),
                           ClaudeMessage("user", <<ClaudeText(q)>>)>>

\* lib.rs:308-313, 464-470, 620-625: the conversation a loop starts from.
initial_conversation(p, q) ==
    CASE p = "Gemini" -> <<GeminiContent(<<PartText(q)>>, Some("user"))>>
      [] p = "OpenAI" -> <<OpenAIMessage("user", q, None, None)>>
      [] p = "Claude" -> <<ClaudeMessage("user", <<ClaudeText(q)>>)>>

\* client.exchange / client.chat of the loop.
exchange(p, conv, w) ==
    CASE p = "Gemini" -> gemini_exchange(conv, w)
      [] p = "OpenAI" -> openai_chat(conv, w)
      [] p = "Claude" -> claude_exchange(conv, w)

\* client.invoke_with_response of invoke(), and the request it sends.
invoke_with_response(p, q, w) ==
    CASE p = "Gemini" -> gemini_invoke_with_response(q, w)
      [] p = "OpenAI" -> openai_invoke_with_response(q, w)
      [] p = "Claude" -> claude_invoke_with_response(q, w)

invoke_request(p, q) ==
    CASE p = "Gemini" -> gemini_request(q)
      [] p = "OpenAI" -> openai_request(q)
      [] p = "Claude" -> claude_request(q)

tool_result_turn_uncorrelated(p, tool_call, py_result) ==
    LET result_value == unwrap_or(depythonize(py_result), JNull) IN
    CASE p = "Gemini" ->
           GeminiContent(<<PartFunctionResponse("tool", wrap_tool_result(result_value))>>,
                         Some("function"))
      [] p = "OpenAI" ->
           OpenAIMessage("tool", to_string(result_value), None, None)
      [] p = "Claude" ->
           ClaudeMessage("user", <<ClaudeToolResult("toolu_0",
                                                    wrap_tool_result(result_value))>>)

\* lib.rs:346-358, 503-514, 658-668: the turn pushed after a tool returned.
tool_result_turn(p, tool_call, py_result) ==
    LET result_value == unwrap_or(depythonize(py_result), JNull) IN
    CASE p = "Gemini" ->
           GeminiContent(<<PartFunctionResponse(tool_call.name,
                                                wrap_tool_result(result_value))>>,
                         Some("function"))
      [] p = "OpenAI" ->
           OpenAIMessage("tool", to_string(result_value), Some(tool_call.id), None)
      [] p = "Claude" ->
           ClaudeMessage("user", <<ClaudeToolResult(tool_call.id,
                                                    wrap_tool_result(result_value))>>)

\* lib.rs:274-283, 430-439, 586-595: the AgentResponse invoke() returns.
agent_response_args_dropped(response) ==
    IF response.variant = "Text"
    THEN [variant |-> "Text", text |-> response.text]
    ELSE [variant |-> "ToolCall",
          tool_call |-> [name |-> response.tool_call.name, args |-> "{}"]]

agent_response(response) ==
    IF response.variant = "Text"
    THEN [variant |-> "Text", text |-> response.text]
    ELSE [variant |-> "ToolCall",
          tool_call |-> [name |-> response.tool_call.name,
                         args |-> to_string(response.tool_call.args)]]

\* .map_err(|e| PyErr::new::<PyRuntimeError, _>(e)) on the adapter's result
\* (lib.rs:267-272, 316-321 and the same in the other two classes).
map_err(e) == PyErr("PyRuntimeError", e)

MaxIterationsError ==
    PyErr("PyRuntimeError", "Max iterations reached without getting a final answer")
NoToolsError ==
    PyErr("PyValueError",
          "run() requires at least one callable tool. Use invoke() for tool-free calls.")
ToolNotFoundError_no_name(name) == PyErr("PyKeyError", "Tool not found")

ToolNotFoundError(name) == PyErr("PyKeyError", "Tool '" \o name \o "' not found")
ToolException == PyErr("Exception", "tool raised")

(***************************************************************************)
(* State machine.                                                          *)
(***************************************************************************)
Init ==
    /\ provider \in Providers
    /\ tools \in {None, Some(<<>>)}
    /\ pc = "idle"
    /\ mode = "none"
    /\ query = ""
    /\ client = None
    /\ tools_dict = EmptyDict
    /\ conversation = <<>>
    /\ iteration = 0
    /\ pending = None
    /\ result = None
    /\ exchanges = 0
    /\ last_sent = None
    /\ last_received = None
    /\ calls = <<>>
    /\ lookups = <<>>
    /\ variety = 0
    /\ other = None
    /\ model = None

\* How far the scenario is from the default one: a model with the one tool
\* add, asked the default query, answered by the default script.  A tool list
\* other than the default one counts for its length.
Cost ==
    variety + (IF tools = DefaultTools THEN 0
               ELSE IF Len(tools_of(tools)) > 1 THEN Len(tools_of(tools)) ELSE 1)
            + (IF query = DefaultQuery THEN 0 ELSE 1)

\* add_tool (lib.rs:254-260, 410-416, 566-572).
add_tool ==
    /\ pc = "idle"
    /\ Len(tools_of(tools)) < MaxTools
    /\ \E tool \in ToolObjs : tools' = Some(Append(tools_of(tools), tool))
    /\ UNCHANGED <<other, model, provider, pc, mode, query, client, tools_dict, conversation,
                   iteration, pending, result, exchanges, last_sent, last_received,
                   calls, lookups, variety>>

run_start_without_tools_check ==
    /\ pc = "idle"
    /\ \E q \in Queries :
       /\ mode' = "run"
       /\ query' = q
       /\ tools_dict' = build_tools_dict(tools_of(tools), 1, EmptyDict)
       /\ result' = result
       /\ pc' = "exchange"
       /\ client' = Some(build_client(tools))
       /\ conversation' = initial_conversation(provider, q)
    /\ UNCHANGED <<other, model, provider, tools, iteration, pending, exchanges, last_sent,
                   last_received, calls, lookups, variety>>

\* run(), up to the first loop iteration (lib.rs:288-313, 444-470, 600-625).
run_start ==
    /\ pc = "idle"
    /\ \E q \in Queries :
       /\ mode' = "run"
       /\ query' = q
       /\ LET dict == build_tools_dict(tools_of(tools), 1, EmptyDict)
              has_tools == DOMAIN dict # {}
          IN /\ tools_dict' = dict
             /\ IF ~has_tools
                THEN /\ result' = Some(Err(NoToolsError))
                     /\ pc' = "done"
                     /\ UNCHANGED <<client, conversation>>
                ELSE /\ result' = result
                     /\ pc' = "exchange"
                     /\ client' = Some(build_client(tools))
                     /\ conversation' = initial_conversation(provider, q)
    /\ UNCHANGED <<other, model, provider, tools, iteration, pending, exchanges, last_sent,
                   last_received, calls, lookups, variety>>

run_exchange_retrying ==
    /\ pc = "exchange"
    /\ \E w \in Wire(provider, exchanges + 1) :
       /\ w = DefaultWire(provider, exchanges + 1) \/ Cost < MaxVariety
       /\ variety' = IF w = DefaultWire(provider, exchanges + 1) THEN variety
                     ELSE variety + 1
       /\ exchanges' = exchanges + 1
       /\ last_sent' = Some(conversation)
       /\ last_received' = Some(w)
       /\ LET r == exchange(provider, conversation, w) IN
          IF ~r.ok
          THEN /\ result' = result
               /\ pc' = "exchange"
               /\ UNCHANGED <<conversation, pending, lookups>>
          ELSE LET response == r.val[1]
                   assistant == r.val[2]
               IN /\ conversation' = push(conversation, assistant)
                  /\ IF response.variant = "Text"
                     THEN /\ result' = Some(text_arm(response.text))
                          /\ pc' = "done"
                          /\ UNCHANGED <<pending, lookups>>
                     ELSE LET tool_call == response.tool_call IN
                          /\ lookups' = Append(lookups, tool_call.name)
                          /\ IF tool_call.name \in DOMAIN tools_dict
                             THEN /\ pending' = Some([tool_call |-> tool_call,
                                                      tool_fn |-> tools_dict[tool_call.name]])
                                  /\ pc' = "tool"
                                  /\ result' = result
                             ELSE /\ result' = Some(Err(ToolNotFoundError(tool_call.name)))
                                  /\ pc' = "done"
                                  /\ pending' = pending
    /\ UNCHANGED <<other, model, provider, tools, mode, query, client, tools_dict, iteration, calls>>

run_exchange_budget_before_tool ==
    /\ pc = "exchange"
    /\ \E w \in Wire(provider, exchanges + 1) :
       /\ w = DefaultWire(provider, exchanges + 1) \/ Cost < MaxVariety
       /\ variety' = IF w = DefaultWire(provider, exchanges + 1) THEN variety
                     ELSE variety + 1
       /\ exchanges' = exchanges + 1
       /\ last_sent' = Some(conversation)
       /\ last_received' = Some(w)
       /\ LET r == exchange(provider, conversation, w) IN
          IF ~r.ok
          THEN /\ result' = Some(Err(PyErr("PyRuntimeError", r.err)))
               /\ pc' = "done"
               /\ UNCHANGED <<conversation, pending, lookups>>
          ELSE LET response == r.val[1]
                   assistant == r.val[2]
               IN /\ conversation' = push(conversation, assistant)
                  /\ IF response.variant = "Text"
                     THEN /\ result' = Some(text_arm(response.text))
                          /\ pc' = "done"
                          /\ UNCHANGED <<pending, lookups>>
                     ELSE LET tool_call == response.tool_call IN
                          /\ lookups' = Append(lookups, tool_call.name)
                          /\ IF iteration + 1 >= MAX_TOOL_ITERATIONS
                             THEN /\ result' = Some(Err(MaxIterationsError))
                                  /\ pc' = "done"
                                  /\ pending' = pending
                             ELSE IF tool_call.name \in DOMAIN tools_dict
                             THEN /\ pending' = Some([tool_call |-> tool_call,
                                                      tool_fn |-> tools_dict[tool_call.name]])
                                  /\ pc' = "tool"
                                  /\ result' = result
                             ELSE /\ result' = Some(Err(ToolNotFoundError(tool_call.name)))
                                  /\ pc' = "done"
                                  /\ pending' = pending
    /\ UNCHANGED <<other, model, provider, tools, mode, query, client, tools_dict, iteration, calls>>

\* One loop iteration up to the registry lookup
\* (lib.rs:316-337, 473-494, 628-649).
run_exchange ==
    /\ pc = "exchange"
    /\ \E w \in Wire(provider, exchanges + 1) :
       /\ w = DefaultWire(provider, exchanges + 1) \/ Cost < MaxVariety
       /\ variety' = IF w = DefaultWire(provider, exchanges + 1) THEN variety
                     ELSE variety + 1
       /\ exchanges' = exchanges + 1
       /\ last_sent' = Some(conversation)
       /\ last_received' = Some(w)
       /\ LET r == exchange(provider, conversation, w) IN
          IF ~r.ok
          THEN /\ result' = Some(Err(PyErr("PyRuntimeError", r.err)))
               /\ pc' = "done"
               /\ UNCHANGED <<conversation, pending, lookups>>
          ELSE LET response == r.val[1]
                   assistant == r.val[2]
               IN /\ conversation' = push(conversation, assistant)
                  /\ IF response.variant = "Text"
                     THEN /\ result' = Some(text_arm(response.text))
                          /\ pc' = "done"
                          /\ UNCHANGED <<pending, lookups>>
                     ELSE LET tool_call == response.tool_call IN
                          /\ lookups' = Append(lookups, tool_call.name)
                          /\ IF tool_call.name \in DOMAIN tools_dict
                             THEN /\ pending' = Some([tool_call |-> tool_call,
                                                      tool_fn |-> tools_dict[tool_call.name]])
                                  /\ pc' = "tool"
                                  /\ result' = result
                             ELSE /\ result' = Some(Err(ToolNotFoundError(tool_call.name)))
                                  /\ pc' = "done"
                                  /\ pending' = pending
    /\ UNCHANGED <<other, model, provider, tools, mode, query, client, tools_dict, iteration, calls>>

run_tool_answering_failure ==
    /\ pc = "tool"
    /\ \E outcome \in ToolOutcomes :
       /\ outcome = DefaultOutcome \/ Cost < MaxVariety
       /\ variety' = IF outcome = DefaultOutcome THEN variety ELSE variety + 1
       /\ LET tool_call == Unwrap(pending).tool_call
              tool_fn == Unwrap(pending).tool_fn
              kwargs == tool_call.args
          IN /\ calls' = Append(calls,
                    [tool |-> tool_fn.id,
                     kwargs |-> IF kwargs.kind = "obj" THEN Some(kwargs) ELSE None,
                     outcome |-> outcome])
             /\ IF FALSE
                THEN /\ result' = Some(Err(ToolException))
                     /\ pc' = "done"
                     /\ UNCHANGED <<conversation, iteration>>
                ELSE /\ conversation' =
                          push(conversation,
                               tool_result_turn(provider, tool_call, outcome.value))
                     /\ iteration' = iteration + 1
                     /\ IF iteration + 1 < MAX_TOOL_ITERATIONS
                        THEN /\ pc' = "exchange"
                             /\ result' = result
                        ELSE /\ pc' = "done"
                             /\ result' = Some(Err(MaxIterationsError))
    /\ pending' = None
    /\ UNCHANGED <<other, model, provider, tools, mode, query, client, tools_dict, exchanges,
                   last_sent, last_received, lookups>>

run_tool_executing_twice ==
    /\ pc = "tool"
    /\ \E outcome \in ToolOutcomes :
       /\ outcome = DefaultOutcome \/ Cost < MaxVariety
       /\ variety' = IF outcome = DefaultOutcome THEN variety ELSE variety + 1
       /\ LET tool_call == Unwrap(pending).tool_call
              tool_fn == Unwrap(pending).tool_fn
              kwargs == tool_call.args
          IN /\ calls' = Append(Append(calls,
                    [tool |-> tool_fn.id,
                     kwargs |-> IF kwargs.kind = "obj" THEN Some(kwargs) ELSE None,
                     outcome |-> outcome]),
                    [tool |-> tool_fn.id,
                     kwargs |-> IF kwargs.kind = "obj" THEN Some(kwargs) ELSE None,
                     outcome |-> outcome])
             /\ IF outcome.raises
                THEN /\ result' = Some(Err(ToolException))
                     /\ pc' = "done"
                     /\ UNCHANGED <<conversation, iteration>>
                ELSE /\ conversation' =
                          push(conversation,
                               tool_result_turn(provider, tool_call, outcome.value))
                     /\ iteration' = iteration + 1
                     /\ IF iteration + 1 < MAX_TOOL_ITERATIONS
                        THEN /\ pc' = "exchange"
                             /\ result' = result
                        ELSE /\ pc' = "done"
                             /\ result' = Some(Err(MaxIterationsError))
    /\ pending' = None
    /\ UNCHANGED <<other, model, provider, tools, mode, query, client, tools_dict, exchanges,
                   last_sent, last_received, lookups>>

run_tool_not_counting ==
    /\ pc = "tool"
    /\ \E outcome \in ToolOutcomes :
       /\ outcome = DefaultOutcome \/ Cost < MaxVariety
       /\ variety' = IF outcome = DefaultOutcome THEN variety ELSE variety + 1
       /\ LET tool_call == Unwrap(pending).tool_call
              tool_fn == Unwrap(pending).tool_fn
              kwargs == tool_call.args
          IN /\ calls' = Append(calls,
                    [tool |-> tool_fn.id,
                     kwargs |-> IF kwargs.kind = "obj" THEN Some(kwargs) ELSE None,
                     outcome |-> outcome])
             /\ IF outcome.raises
                THEN /\ result' = Some(Err(ToolException))
                     /\ pc' = "done"
                     /\ UNCHANGED <<conversation, iteration>>
                ELSE /\ conversation' =
                          push(conversation,
                               tool_result_turn(provider, tool_call, outcome.value))
                     /\ iteration' = iteration
                     /\ IF iteration + 1 < MAX_TOOL_ITERATIONS
                        THEN /\ pc' = "exchange"
                             /\ result' = result
                        ELSE /\ pc' = "done"
                             /\ result' = Some(Err(MaxIterationsError))
    /\ pending' = None
    /\ UNCHANGED <<other, model, provider, tools, mode, query, client, tools_dict, exchanges,
                   last_sent, last_received, lookups>>

\* The rest of the iteration: the tool runs, its result is pushed, and the
\* loop either goes round or runs out (lib.rs:339-365, 496-521, 651-675).
run_tool ==
    /\ pc = "tool"
    /\ \E outcome \in ToolOutcomes :
       /\ outcome = DefaultOutcome \/ Cost < MaxVariety
       /\ variety' = IF outcome = DefaultOutcome THEN variety ELSE variety + 1
       /\ LET tool_call == Unwrap(pending).tool_call
              tool_fn == Unwrap(pending).tool_fn
              kwargs == tool_call.args
          IN /\ calls' = Append(calls,
                    [tool |-> tool_fn.id,
                     kwargs |-> IF kwargs.kind = "obj" THEN Some(kwargs) ELSE None,
                     outcome |-> outcome])
             /\ IF outcome.raises
                THEN /\ result' = Some(Err(ToolException))
                     /\ pc' = "done"
                     /\ UNCHANGED <<conversation, iteration>>
                ELSE /\ conversation' =
                          push(conversation,
                               tool_result_turn(provider, tool_call, outcome.value))
                     /\ iteration' = iteration + 1
                     /\ IF iteration + 1 < MAX_TOOL_ITERATIONS
                        THEN /\ pc' = "exchange"
                             /\ result' = result
                        ELSE /\ pc' = "done"
                             /\ result' = Some(Err(MaxIterationsError))
    /\ pending' = None
    /\ UNCHANGED <<other, model, provider, tools, mode, query, client, tools_dict, exchanges,
                   last_sent, last_received, lookups>>

\* invoke() (lib.rs:264-284, 420-440, 576-596).
invoke_executing_tool ==
    /\ pc = "idle"
    /\ \E q \in Queries, w \in Wire(provider, 1) :
       /\ mode' = "invoke"
       /\ query' = q
       /\ client' = Some(build_client(tools))
       /\ exchanges' = exchanges + 1
       /\ last_sent' = Some(invoke_request(provider, q))
       /\ last_received' = Some(w)
       /\ LET r == invoke_with_response(provider, q, w)
              dict == build_tools_dict(tools_of(tools), 1, EmptyDict)
          IN /\ result' = IF r.ok THEN Some(Ok(agent_response(r.val)))
                          ELSE Some(Err(PyErr("PyRuntimeError", r.err)))
             /\ IF r.ok /\ r.val.variant = "ToolCall"
                       /\ r.val.tool_call.name \in DOMAIN dict
                THEN calls' = Append(calls,
                         [tool |-> dict[r.val.tool_call.name].id,
                          kwargs |-> None, outcome |-> DefaultOutcome])
                ELSE calls' = calls
    /\ pc' = "done"
    /\ UNCHANGED <<other, model, provider, tools, tools_dict, conversation, iteration, pending,
                   lookups, variety>>

invoke ==
    /\ pc = "idle"
    /\ \E q \in Queries, w \in Wire(provider, 1) :
       /\ mode' = "invoke"
       /\ query' = q
       /\ client' = Some(build_client(tools))
       /\ exchanges' = exchanges + 1
       /\ last_sent' = Some(invoke_request(provider, q))
       /\ last_received' = Some(w)
       /\ LET r == invoke_with_response(provider, q, w) IN
          result' = IF r.ok THEN Some(Ok(agent_response(r.val)))
                    ELSE Some(Err(PyErr("PyRuntimeError", r.err)))
    /\ pc' = "done"
    /\ UNCHANGED <<other, model, provider, tools, tools_dict, conversation, iteration, pending,
                   calls, lookups, variety>>

Next ==
    \/ add_tool
    \/ run_start
    \/ run_exchange
    \/ run_tool
    \/ invoke

Spec == Init /\ [][Next]_vars

\* A call in progress goes on: block_on returns when the exchange does, and
\* the tool call returns when the tool does (lib.rs:316-317, 339-344).
FairSpec == Spec /\ WF_vars(run_exchange) /\ WF_vars(run_tool)

(***************************************************************************)
(* Several top-level calls, one after the other, on one model object: the  *)
(* object keeps self.tools, a call's locals die when it returns.  The      *)
(* backend follows the default script.                                     *)
(***************************************************************************)
SessionInit ==
    /\ provider \in Providers
    /\ tools \in {None, Some(<<>>)}
    /\ pc = "idle"
    /\ mode = "none"
    /\ query = ""
    /\ client = None
    /\ tools_dict = EmptyDict
    /\ conversation = <<>>
    /\ iteration = 0
    /\ pending = None
    /\ result = None
    /\ exchanges = 0
    /\ last_sent = None
    /\ last_received = None
    /\ calls = <<>>
    /\ lookups = <<>>
    /\ variety = MaxVariety
    /\ other = None
    /\ model = None

\* run() or invoke() returns to Python (lib.rs:284, 366 and the same in the
\* other classes): the frame is gone, the object is as add_tool left it.
\* conversation keeps what the finished call left in memory; nothing may
\* read it again.
call_return ==
    /\ pc = "done"
    /\ pc' = "idle"
    /\ mode' = "none"
    /\ query' = ""
    /\ client' = None
    /\ tools_dict' = EmptyDict
    /\ iteration' = 0
    /\ pending' = None
    /\ result' = None
    /\ exchanges' = 0
    /\ last_sent' = None
    /\ last_received' = None
    /\ calls' = <<>>
    /\ lookups' = <<>>
    /\ UNCHANGED <<other, model, provider, tools, conversation, variety>>

SessionNext ==
    \/ add_tool
    \/ run_start
    \/ run_exchange
    \/ run_tool
    \/ invoke
    \/ call_return

SessionSpec == SessionInit /\ [][SessionNext]_vars

(***************************************************************************)
(* Two top-level calls in progress at once, each on its own thread and on  *)
(* its own model object (or both on one: no call changes self.tools).  The *)
(* variables hold the frame of the thread that is running, other the frame *)
(* of the suspended one; the threads switch between any two steps.         *)
(***************************************************************************)
NamelessTool == [id |-> 3, name |-> None, to_dict |-> Some(JStr("anon"))]
ConcurrentTools == {DefaultTools, Some(<<NamelessTool>>)}

IdleFrame(p, t) ==
    [provider |-> p, tools |-> t, pc |-> "idle", mode |-> "none", query |-> "",
     client |-> None, tools_dict |-> EmptyDict, conversation |-> <<>>,
     iteration |-> 0, pending |-> None, result |-> None, exchanges |-> 0,
     last_sent |-> None, last_received |-> None, calls |-> <<>>, lookups |-> <<>>]

RunningFrame ==
    [provider |-> provider, tools |-> tools, pc |-> pc, mode |-> mode,
     query |-> query, client |-> client, tools_dict |-> tools_dict,
     conversation |-> conversation, iteration |-> iteration, pending |-> pending,
     result |-> result, exchanges |-> exchanges, last_sent |-> last_sent,
     last_received |-> last_received, calls |-> calls, lookups |-> lookups]

ConcurrentInit ==
    /\ provider \in Providers
    /\ tools \in ConcurrentTools
    /\ pc = "idle"
    /\ mode = "none"
    /\ query = ""
    /\ client = None
    /\ tools_dict = EmptyDict
    /\ conversation = <<>>
    /\ iteration = 0
    /\ pending = None
    /\ result = None
    /\ exchanges = 0
    /\ last_sent = None
    /\ last_received = None
    /\ calls = <<>>
    /\ lookups = <<>>
    /\ variety = MaxVariety
    /\ \E p \in Providers, t \in ConcurrentTools : other = Some(IdleFrame(p, t))
    /\ model = None

context_switch_sharing_conversation ==
    /\ IsSome(other)
    /\ other' = Some(RunningFrame)
    /\ provider' = Unwrap(other).provider
    /\ tools' = Unwrap(other).tools
    /\ pc' = Unwrap(other).pc
    /\ mode' = Unwrap(other).mode
    /\ query' = Unwrap(other).query
    /\ client' = Unwrap(other).client
    /\ tools_dict' = Unwrap(other).tools_dict
    /\ conversation' = conversation
    /\ iteration' = Unwrap(other).iteration
    /\ pending' = Unwrap(other).pending
    /\ result' = Unwrap(other).result
    /\ exchanges' = Unwrap(other).exchanges
    /\ last_sent' = Unwrap(other).last_sent
    /\ last_received' = Unwrap(other).last_received
    /\ calls' = Unwrap(other).calls
    /\ lookups' = Unwrap(other).lookups
    /\ UNCHANGED <<variety, model>>

\* The running thread is suspended and the other one resumes: each finds
\* its own self and its own locals of run() / invoke() (lib.rs:288-313).
context_switch ==
    /\ IsSome(other)
    /\ other' = Some(RunningFrame)
    /\ provider' = Unwrap(other).provider
    /\ tools' = Unwrap(other).tools
    /\ pc' = Unwrap(other).pc
    /\ mode' = Unwrap(other).mode
    /\ query' = Unwrap(other).query
    /\ client' = Unwrap(other).client
    /\ tools_dict' = Unwrap(other).tools_dict
    /\ conversation' = Unwrap(other).conversation
    /\ iteration' = Unwrap(other).iteration
    /\ pending' = Unwrap(other).pending
    /\ result' = Unwrap(other).result
    /\ exchanges' = Unwrap(other).exchanges
    /\ last_sent' = Unwrap(other).last_sent
    /\ last_received' = Unwrap(other).last_received
    /\ calls' = Unwrap(other).calls
    /\ lookups' = Unwrap(other).lookups
    /\ UNCHANGED <<variety, model>>

ConcurrentNext ==
    \/ run_start
    \/ run_exchange
    \/ run_tool
    \/ invoke
    \/ context_switch

ConcurrentSpec == ConcurrentInit /\ [][ConcurrentNext]_vars

(***************************************************************************)
(* create_agent: the model identifier decides the class of the object.     *)
(* Identifiers are sequences of characters, so that starts_with is the     *)
(* prefix test it is in the code.                                          *)
(***************************************************************************)
OPENAI_MODELS ==
    <<<<"g", "p", "t", "-", "3", ".", "5", "-", "t", "u", "r", "b", "o">>,
      <<"g", "p", "t", "-", "4">>,
      <<"g", "p", "t", "-", "4", "-", "t", "u", "r", "b", "o">>,
      <<"g", "p", "t", "-", "4", "o">>,
      <<"g", "p", "t", "-", "4", "o", "-", "m", "i", "n", "i">>,
      <<"o", "1">>,
      <<"o", "1", "-", "m", "i", "n", "i">>,
      <<"o", "1", "-", "p", "r", "e", "v", "i", "e", "w">>,
      <<"o", "3", "-", "m", "i", "n", "i">>>>
CLAUDE_MODELS ==
    <<<<"c", "l", "a", "u", "d", "e", "-", "3", "-", "o", "p", "u", "s">>,
      <<"c", "l", "a", "u", "d", "e", "-", "3", "-", "s", "o", "n", "n", "e", "t">>,
      <<"c", "l", "a", "u", "d", "e", "-", "3", "-", "h", "a", "i", "k", "u">>,
      <<"c", "l", "a", "u", "d", "e", "-", "3", ".", "5", "-", "s", "o", "n", "n", "e", "t">>,
      <<"c", "l", "a", "u", "d", "e", "-", "s", "o", "n", "n", "e", "t", "-", "4", "-", "5">>>>
GEMINI_MODELS ==
    <<<<"g", "e", "m", "i", "n", "i", "-", "p", "r", "o">>,
      <<"g", "e", "m", "i", "n", "i", "-", "1", ".", "5", "-", "p", "r", "o">>,
      <<"g", "e", "m", "i", "n", "i", "-", "1", ".", "5", "-", "f", "l", "a", "s", "h">>,
      <<"g", "e", "m", "i", "n", "i", "-", "2", ".", "0", "-", "f", "l", "a", "s", "h">>,
      <<"g", "e", "m", "i", "n", "i", "-", "2", ".", "5", "-", "f", "l", "a", "s", "h">>>>

\* str::starts_with.
starts_with(s, prefix) ==
    Len(prefix) <= Len(s) /\ SubSeq(s, 1, Len(prefix)) = prefix

\* `for m in TABLE { if model.starts_with(m) { return .. } }` (lib.rs:52-68).
table_matches(table, id) == \E i \in 1..Len(table) : starts_with(id, table[i])

\* The text of a character sequence, and [..].join(", ").
RECURSIVE text_of(_)
text_of(chars) == IF chars = <<>> THEN "" ELSE chars[1] \o text_of(Tail(chars))
RECURSIVE join(_)
join(table) ==
    IF Len(table) = 0 THEN ""
    ELSE IF Len(table) = 1 THEN text_of(table[1])
    ELSE text_of(table[1]) \o ", " \o join(Tail(table))

UnknownModelError(id) ==
    PyErr("PyValueError",
          "Unknown model '" \o text_of(id) \o "'. Supported models:\n  OpenAI: "
              \o join(OPENAI_MODELS) \o "\n  Claude: " \o join(CLAUDE_MODELS)
              \o "\n  Gemini: " \o join(GEMINI_MODELS))

detect_provider_defaulting(id) ==
    IF table_matches(CLAUDE_MODELS, id) THEN Ok("Claude")
    ELSE IF table_matches(GEMINI_MODELS, id) THEN Ok("Gemini")
    ELSE Ok("OpenAI")

\* detect_provider (lib.rs:28-80).
detect_provider(id) ==
    IF table_matches(OPENAI_MODELS, id) THEN Ok("OpenAI")
    ELSE IF table_matches(CLAUDE_MODELS, id) THEN Ok("Claude")
    ELSE IF table_matches(GEMINI_MODELS, id) THEN Ok("Gemini")
    ELSE Err(UnknownModelError(id))

\* The identifiers create_agent is called with: the table entries, each with
\* a suffix, each without its last character, and some that are in no table.
AllEntries ==
    {OPENAI_MODELS[i] : i \in 1..Len(OPENAI_MODELS)}
      \cup {CLAUDE_MODELS[i] : i \in 1..Len(CLAUDE_MODELS)}
      \cup {GEMINI_MODELS[i] : i \in 1..Len(GEMINI_MODELS)}
ModelIds ==
    AllEntries
      \cup {e \o <<"-", "x">> : e \in AllEntries}
      \cup {SubSeq(e, 1, Len(e) - 1) : e \in AllEntries}
      \cup {<<>>,
            <<"l", "l", "a", "m", "a", "-", "3">>,
            <<"G", "P", "T", "-", "4">>,
            <<"c", "l", "a", "u", "d", "e", "-", "2">>,
            <<"g", "e", "m", "i", "n", "i", "-", "1", ".", "0", "-", "p", "r", "o">>,
            <<"o">>,
            <<"x", "g", "p", "t", "-", "4">>,
            <<"g", "p", "t", "-">>,
            <<"c", "l", "a", "u", "d", "e", "-", "3">>,
            <<"g", "e", "m", "i", "n", "i", "-", "2", ".", "5", "-", "p", "r", "o">>}

AgentInit ==
    /\ provider = "none"
    /\ tools = None
    /\ pc = "no agent"
    /\ mode = "none"
    /\ query = ""
    /\ client = None
    /\ tools_dict = EmptyDict
    /\ conversation = <<>>
    /\ iteration = 0
    /\ pending = None
    /\ result = None
    /\ exchanges = 0
    /\ last_sent = None
    /\ last_received = None
    /\ calls = <<>>
    /\ lookups = <<>>
    /\ variety = 0
    /\ other = None
    /\ model = None

\* create_agent (lib.rs:109-147).
create_agent ==
    /\ pc = "no agent"
    /\ \E id \in ModelIds, t \in {None, DefaultTools} :
       LET detected == detect_provider(id) IN
       IF detected.ok
       THEN /\ provider' = detected.val
            /\ model' = Some(id)
            /\ tools' = t
            /\ pc' = "idle"
            /\ result' = None
       ELSE /\ result' = Some(Err(detected.err))
            /\ UNCHANGED <<provider, model, tools, pc>>
    /\ UNCHANGED <<other, mode, query, client, tools_dict, conversation, iteration,
                   pending, exchanges, last_sent, last_received, calls, lookups,
                   variety>>

AgentNext ==
    \/ create_agent
    \/ invoke

AgentSpec == AgentInit /\ [][AgentNext]_vars

(***************************************************************************)
(* The adapters on their own: one exchange of a fresh adapter over every   *)
(* response content of up to MaxSegments segments.                         *)
(***************************************************************************)
AdapterSegs ==
    {SegText("4"), SegText("5"), SegCall("add", ObjArgs), SegCall("foo", JNum(7)),
     SegResult}

RECURSIVE SegSeqs(_)
SegSeqs(n) ==
    IF n = 0 THEN {<<>>}
    ELSE SegSeqs(n - 1)
           \cup {Append(l, x) : l \in {y \in SegSeqs(n - 1) : Len(y) = n - 1},
                                x \in AdapterSegs}

AdapterWire(p) ==
    Failures
      \cup {Http(200, "json", Some(Body(p, segs, 1))) : segs \in SegSeqs(MaxSegments)}
      \cup {Http(200, "json", Some(b)) : b \in OddBodies(p, 1)}

AdapterInit ==
    /\ provider \in Providers
    /\ tools = None
    /\ pc = "idle"
    /\ mode = "none"
    /\ query = ""
    /\ client = None
    /\ tools_dict = EmptyDict
    /\ conversation = <<>>
    /\ iteration = 0
    /\ pending = None
    /\ result = None
    /\ exchanges = 0
    /\ last_sent = None
    /\ last_received = None
    /\ calls = <<>>
    /\ lookups = <<>>
    /\ variety = 0
    /\ other = None
    /\ model = None

\* Gemini::exchange, OpenAI::chat, Claude::exchange on a one-turn conversation.
adapter_exchange ==
    /\ pc = "idle"
    /\ \E w \in AdapterWire(provider) :
       /\ last_sent' = Some(initial_conversation(provider, DefaultQuery))
       /\ last_received' = Some(w)
       /\ result' = Some(exchange(provider,
                                  initial_conversation(provider, DefaultQuery), w))
    /\ mode' = "exchange"
    /\ client' = Some(build_client(tools))
    /\ query' = DefaultQuery
    /\ exchanges' = exchanges + 1
    /\ pc' = "done"
    /\ UNCHANGED <<other, model, provider, tools, tools_dict, conversation, iteration, pending,
                   calls, lookups, variety>>

\* invoke_with_response of the three adapters.
adapter_invoke_with_response ==
    /\ pc = "idle"
    /\ \E w \in AdapterWire(provider) :
       /\ last_sent' = Some(invoke_request(provider, DefaultQuery))
       /\ last_received' = Some(w)
       /\ result' = Some(invoke_with_response(provider, DefaultQuery, w))
    /\ mode' = "invoke_with_response"
    /\ client' = Some(build_client(tools))
    /\ query' = DefaultQuery
    /\ exchanges' = exchanges + 1
    /\ pc' = "done"
    /\ UNCHANGED <<other, model, provider, tools, tools_dict, conversation, iteration, pending,
                   calls, lookups, variety>>

AdapterNext ==
    \/ adapter_exchange
    \/ adapter_invoke_with_response

AdapterSpec == AdapterInit /\ [][AdapterNext]_vars

(***************************************************************************)
(* The adapters' entry points one network request at a time: a call is    *)
(* entered, then each send_request / send().await is a step.               *)
(***************************************************************************)
MAX_ITERATIONS == 10

\* Claude::invoke (claude.rs:96-103).
claude_invoke(prompt, w) ==
    LET r == claude_invoke_with_response(prompt, w)
    IN IF ~r.ok THEN r
       ELSE IF r.val.variant = "Text" THEN Ok(r.val.text)
       ELSE Ok("Request to call tool: " \o r.val.tool_call.name)

\* OpenAI::invoke (openai.rs:117-125).
openai_invoke(prompt, w) ==
    LET r == openai_invoke_with_response(prompt, w)
    IN IF ~r.ok THEN r
       ELSE IF r.val.variant = "Text" THEN Ok(r.val.text)
       ELSE Ok("Request to call tool: " \o r.val.tool_call.name)

\* `for part in parts { if let Part::Text { text } = part { return .. } }`
\* (gemini.rs:173-177, 246-250): the first text part, if any.
RECURSIVE gemini_first_text(_, _)
gemini_first_text(parts, i) ==
    IF i > Len(parts) THEN None
    ELSE IF IsPartText(parts[i]) THEN Some(parts[i].text)
    ELSE gemini_first_text(parts, i + 1)

\* One iteration of the loop of Gemini::invoke (gemini.rs:167-183): the
\* value returned, or None when the loop goes round.
gemini_invoke_iteration(w) ==
    LET sr == gemini_send_request(w) IN
    IF ~sr.ok THEN Some(sr)
    ELSE LET response == sr.val IN
         IF IsSome(response.candidates) /\ Len(Unwrap(response.candidates)) > 0
         THEN LET text == gemini_first_text(
                              Unwrap(response.candidates)[1].content.parts, 1)
              IN IF IsSome(text) THEN Some(Ok(Unwrap(text)))
                 ELSE Some(Err("Function calling not yet supported in invoke()"))
         ELSE None

\* Gemini::continue_with_tool_result (gemini.rs:224-255): the contents it
\* sends and what it returns.
gemini_continue_contents(conversation_history, tool_call, tool_result) ==
    push(conversation_history,
         GeminiContent(<<PartFunctionResponse(tool_call.name, tool_result)>>,
                       Some("function")))
gemini_continue_with_tool_result(w) ==
    LET sr == gemini_send_request(w) IN
    IF ~sr.ok THEN sr
    ELSE LET response == sr.val
             text == IF IsSome(response.candidates)
                        /\ Len(Unwrap(response.candidates)) > 0
                     THEN gemini_first_text(
                              Unwrap(response.candidates)[1].content.parts, 1)
                     ELSE None
         IN IF IsSome(text) THEN Ok(Unwrap(text))
            ELSE Err("No text response after tool execution")

EntryPoints(p) ==
    CASE p = "Claude" -> {"exchange", "invoke_with_response", "invoke"}
      [] p = "OpenAI" -> {"chat", "invoke_with_response", "invoke"}
      [] p = "Gemini" -> {"exchange", "invoke_with_response", "invoke",
                          "continue_with_tool_result"}

\* The messages / contents an entry point puts in its request body.
EntryHistory ==
    <<GeminiContent(<<PartText(DefaultQuery)>>, Some("user")),
      GeminiContent(<<PartFunctionCall("add", ObjArgs)>>, Some("model"))>>
entry_request(p, e) ==
    IF e \in {"exchange", "chat"} THEN initial_conversation(p, DefaultQuery)
    ELSE IF e = "continue_with_tool_result"
    THEN gemini_continue_contents(EntryHistory, [name |-> "add", args |-> ObjArgs],
                                  JObj([result |-> JNum(4)]))
    ELSE invoke_request(p, DefaultQuery)

\* An entry point is called on a fresh adapter: up to its first request.
entry_call ==
    /\ pc = "idle"
    /\ \E e \in EntryPoints(provider) :
       /\ mode' = e
       /\ last_sent' = Some(entry_request(provider, e))
    /\ query' = DefaultQuery
    /\ client' = Some(build_client(tools))
    /\ pc' = "send"
    /\ UNCHANGED <<other, model, provider, tools, tools_dict, conversation, iteration, pending,
                   result, exchanges, last_received, calls, lookups, variety>>

\* One outbound request of the entry point and what the entry point does
\* with its response: return, or (Gemini::invoke) go round its loop.
entry_send ==
    /\ pc = "send"
    /\ \E w \in Wire(provider, 1) :
       /\ exchanges' = exchanges + 1
       /\ last_received' = Some(w)
       /\ IF provider = "Gemini" /\ mode = "invoke"
          THEN LET returned == gemini_invoke_iteration(w) IN
               IF IsSome(returned)
               THEN /\ result' = returned
                    /\ pc' = "done"
                    /\ iteration' = iteration
               ELSE /\ iteration' = iteration + 1
                    /\ IF iteration + 1 < MAX_ITERATIONS
                       THEN /\ pc' = "send"
                            /\ result' = result
                       ELSE /\ pc' = "done"
                            /\ result' = Some(Err(
                                  "Max iterations reached without getting a text response"))
          ELSE /\ iteration' = iteration
               /\ pc' = "done"
               /\ result' = Some(
                    CASE mode \in {"exchange", "chat"} ->
                           exchange(provider, Unwrap(last_sent), w)
                      [] mode = "invoke_with_response" ->
                           invoke_with_response(provider, DefaultQuery, w)
                      [] mode = "continue_with_tool_result" ->
                           gemini_continue_with_tool_result(w)
                      [] mode = "invoke" ->
                           IF provider = "Claude" THEN claude_invoke(DefaultQuery, w)
                           ELSE openai_invoke(DefaultQuery, w))
    /\ UNCHANGED <<other, model, provider, tools, mode, query, client, tools_dict, conversation,
                   pending, last_sent, calls, lookups, variety>>

EntryNext ==
    \/ entry_call
    \/ entry_send

EntrySpec == AdapterInit /\ [][EntryNext]_vars

(***************************************************************************)
(* The derived serde codecs of the content types.  A responder turn is     *)
(* serialized into the next request body with the Serialize of its type    *)
(* (Message, Content); a response body is read with the Deserialize of the *)
(* response type.  Values on the wire are serde_json trees.                *)
(***************************************************************************)
HasStr(v, field) ==
    v.kind = "obj" /\ field \in DOMAIN v.obj /\ v.obj[field].kind = "str"
HasField(v, field) == v.kind = "obj" /\ field \in DOMAIN v.obj
\* An Option field: absent or null is None.
IsAbsent(v, field) ==
    v.kind = "obj" /\ (field \notin DOMAIN v.obj \/ v.obj[field].kind = "null")
AllOk(rs) == \A k \in 1..Len(rs) : rs[k].ok
Vals(rs) == [k \in 1..Len(rs) |-> rs[k].val]

\* claude.rs:25-42, #[serde(tag = "type")].
ContentBlock_serialize(block) ==
    CASE block.type = "text" ->
           JObj([type |-> JStr("text"), text |-> JStr(block.text)])
      [] block.type = "tool_use" ->
           JObj([type |-> JStr("tool_use"), id |-> JStr(block.id),
                 name |-> JStr(block.name), input |-> block.input])
      [] block.type = "tool_result" ->
           JObj([type |-> JStr("tool_result"), tool_use_id |-> JStr(block.tool_use_id),
                 content |-> block.content])
ContentBlock_deserialize(v) ==
    IF ~HasStr(v, "type") THEN Err("missing field type")
    ELSE IF v.obj.type.str = "text"
    THEN IF HasStr(v, "text") THEN Ok(ClaudeText(v.obj.text.str))
         ELSE Err("missing field text")
    ELSE IF v.obj.type.str = "tool_use"
    THEN IF HasStr(v, "id") /\ HasStr(v, "name") /\ HasField(v, "input")
         THEN Ok(ClaudeToolUse(v.obj.id.str, v.obj.name.str, v.obj.input))
         ELSE Err("missing field")
    ELSE IF v.obj.type.str = "tool_result"
    THEN IF HasStr(v, "tool_use_id") /\ HasField(v, "content")
         THEN Ok(ClaudeToolResult(v.obj.tool_use_id.str, v.obj.content))
         ELSE Err("missing field")
    ELSE Err("unknown variant")

\* claude.rs:14-18 and 20-23.
ClaudeMessage_serialize(m) ==
    JObj([role |-> JStr(m.role),
          content |-> JArr([k \in 1..Len(m.content) |->
                               ContentBlock_serialize(m.content[k])])])
MessagesResponse_deserialize(v) ==
    IF HasField(v, "content") /\ v.obj.content.kind = "arr"
    THEN LET blocks == [k \in 1..Len(v.obj.content.arr) |->
                           ContentBlock_deserialize(v.obj.content.arr[k])]
         IN IF AllOk(blocks) THEN Some([content |-> Vals(blocks)]) ELSE None
    ELSE None

\* gemini.rs:25-51, #[serde(untagged)]: written as the variant's fields, read
\* as the first variant whose fields are there.
Part_serialize(part) ==
    IF IsPartText(part) THEN JObj([text |-> JStr(part.text)])
    ELSE IF IsPartFunctionCall(part)
    THEN JObj([functionCall |-> JObj([name |-> JStr(part.functionCall.name),
                                      args |-> part.functionCall.args])])
    ELSE JObj([functionResponse |->
                  JObj([name |-> JStr(part.functionResponse.name),
                        response |-> part.functionResponse.response])])
Part_deserialize(v) ==
    IF HasStr(v, "text") THEN Ok(PartText(v.obj.text.str))
    ELSE IF /\ HasField(v, "functionCall")
            /\ HasStr(v.obj.functionCall, "name")
            /\ HasField(v.obj.functionCall, "args")
    THEN Ok(PartFunctionCall(v.obj.functionCall.obj.name.str, v.obj.functionCall.obj.args))
    ELSE IF /\ HasField(v, "functionResponse")
            /\ HasStr(v.obj.functionResponse, "name")
            /\ HasField(v.obj.functionResponse, "response")
    THEN Ok(PartFunctionResponse(v.obj.functionResponse.obj.name.str,
                                 v.obj.functionResponse.obj.response))
    ELSE Err("data did not match any variant of untagged enum Part")

\* gemini.rs:18-23 (role skipped when None) and 53-68.
Content_serialize(c) ==
    LET parts == JArr([k \in 1..Len(c.parts) |-> Part_serialize(c.parts[k])])
    IN IF IsSome(c.role) THEN JObj([parts |-> parts, role |-> JStr(Unwrap(c.role))])
       ELSE JObj([parts |-> parts])
ContentResponse_deserialize(v) ==
    IF /\ HasField(v, "parts") /\ v.obj.parts.kind = "arr"
       /\ (IsAbsent(v, "role") \/ HasStr(v, "role"))
    THEN LET parts == [k \in 1..Len(v.obj.parts.arr) |->
                          Part_deserialize(v.obj.parts.arr[k])]
         IN IF AllOk(parts)
            THEN Ok([parts |-> Vals(parts),
                     role |-> IF IsAbsent(v, "role") THEN None
                              ELSE Some(v.obj.role.str)])
            ELSE Err("parts")
    ELSE Err("missing field parts")
GenerateContentResponse_deserialize(v) ==
    IF v.kind # "obj" THEN None
    ELSE IF IsAbsent(v, "candidates") THEN Some([candidates |-> None])
    ELSE IF v.obj.candidates.kind # "arr" THEN None
    ELSE LET cs == [k \in 1..Len(v.obj.candidates.arr) |->
                       IF HasField(v.obj.candidates.arr[k], "content")
                       THEN ContentResponse_deserialize(
                                v.obj.candidates.arr[k].obj.content)
                       ELSE Err("missing field content")]
         IN IF AllOk(cs)
            THEN Some([candidates |->
                          Some([k \in 1..Len(cs) |-> [content |-> cs[k].val]])])
            ELSE None

\* openai.rs:50-63.
ToolCallResponse_serialize(tc) ==
    JObj([id |-> JStr(tc.id), type |-> JStr(tc.type),
          function |-> JObj([name |-> JStr(tc.function.name),
                             arguments |-> JStr(tc.function.arguments)])])
ToolCallResponse_deserialize(v) ==
    IF /\ HasStr(v, "id") /\ HasStr(v, "type") /\ HasField(v, "function")
       /\ HasStr(v.obj.function, "name") /\ HasStr(v.obj.function, "arguments")
    THEN Ok([id |-> v.obj.id.str, type |-> v.obj.type.str,
             function |-> [name |-> v.obj.function.obj.name.str,
                           arguments |-> v.obj.function.obj.arguments.str]])
    ELSE Err("missing field")

\* openai.rs:20-31 (the Option fields skipped when None) and 33-48.
OpenAIMessage_serialize_without_tool_calls(m) ==
    JObj([role |-> JStr(m.role), content |-> JStr(m.content)])

OpenAIMessage_serialize(m) ==
    JObj([role |-> JStr(m.role), content |-> JStr(m.content)]
           @@ (IF IsSome(m.name) THEN [name |-> JStr(Unwrap(m.name))]
               ELSE [nm \in {} |-> JNull])
           @@ (IF IsSome(m.tool_call_id)
               THEN [tool_call_id |-> JStr(Unwrap(m.tool_call_id))]
               ELSE [nm \in {} |-> JNull])
           @@ (IF IsSome(m.tool_calls)
               THEN [tool_calls |->
                        JArr([k \in 1..Len(Unwrap(m.tool_calls)) |->
                                 ToolCallResponse_serialize(Unwrap(m.tool_calls)[k])])]
               ELSE [nm \in {} |-> JNull]))
MessageResponse_deserialize(v) ==
    IF /\ HasStr(v, "role")
       /\ (IsAbsent(v, "content") \/ HasStr(v, "content"))
       /\ (IsAbsent(v, "tool_calls") \/ v.obj.tool_calls.kind = "arr")
    THEN LET tcs == IF IsAbsent(v, "tool_calls") THEN <<>>
                    ELSE [k \in 1..Len(v.obj.tool_calls.arr) |->
                             ToolCallResponse_deserialize(v.obj.tool_calls.arr[k])]
         IN IF AllOk(tcs)
            THEN Ok([role |-> v.obj.role.str,
                     content |-> IF IsAbsent(v, "content") THEN None
                                 ELSE Some(v.obj.content.str),
                     tool_calls |-> IF IsAbsent(v, "tool_calls") THEN None
                                    ELSE Some(Vals(tcs))])
            ELSE Err("tool_calls")
    ELSE Err("missing field role")
ChatCompletionResponse_deserialize(v) ==
    IF HasField(v, "choices") /\ v.obj.choices.kind = "arr"
    THEN LET cs == [k \in 1..Len(v.obj.choices.arr) |->
                       IF HasField(v.obj.choices.arr[k], "message")
                       THEN MessageResponse_deserialize(
                                v.obj.choices.arr[k].obj.message)
                       ELSE Err("missing field message")]
         IN IF AllOk(cs)
            THEN Some([choices |-> [k \in 1..Len(cs) |-> [message |-> cs[k].val]]])
            ELSE None
    ELSE None

\* The responder turn as the next request carries it.
turn_serialize(p, turn) ==
    CASE p = "Claude" -> ClaudeMessage_serialize(turn)
      [] p = "Gemini" -> Content_serialize(turn)
      [] p = "OpenAI" -> OpenAIMessage_serialize(turn)

\* A backend that answers with the turn it was sent: the turn in the place
\* the response type reads the responder's content from.
EchoBody(p, sent) ==
    CASE p = "Claude" -> sent
      [] p = "Gemini" -> JObj([candidates |-> JArr(<<JObj([content |-> sent])>>)])
      [] p = "OpenAI" -> JObj([choices |-> JArr(<<JObj([message |-> sent])>>)])

\* response.json::<T>() of the three adapters.
response_json(p, v) ==
    CASE p = "Claude" -> MessagesResponse_deserialize(v)
      [] p = "Gemini" -> GenerateContentResponse_deserialize(v)
      [] p = "OpenAI" -> ChatCompletionResponse_deserialize(v)

\* The exchange after a successful one, against a backend that echoes the
\* responder turn: the turn is appended, sent, and read back.
echo_exchange ==
    /\ pc = "done"
    /\ mode = "exchange"
    /\ IsSome(result) /\ Unwrap(result).ok
    /\ LET turn == Unwrap(result).val[2]
           sent == push(Unwrap(last_sent), turn)
           w == Http(200, "json",
                     response_json(provider,
                                   EchoBody(provider, turn_serialize(provider, turn))))
       IN /\ conversation' = sent
          /\ last_sent' = Some(sent)
          /\ last_received' = Some(w)
          /\ pending' = Some(Unwrap(result).val)
          /\ result' = Some(exchange(provider, sent, w))
    /\ exchanges' = exchanges + 1
    /\ pc' = "echoed"
    /\ UNCHANGED <<other, model, provider, tools, mode, query, client, tools_dict,
                   iteration, calls, lookups, variety>>

CodecNext ==
    \/ adapter_exchange
    \/ echo_exchange

CodecSpec == AdapterInit /\ [][CodecNext]_vars

(***************************************************************************)
(* Properties.                                                             *)
(***************************************************************************)
Last(seq) == seq[Len(seq)]
IsPrefix(a, b) == Len(a) <= Len(b) /\ \A i \in 1..Len(a) : a[i] = b[i]
RunMode == mode = "run"
Finished == pc = "done" /\ IsSome(result)
FailedWith(e) == Finished /\ ~Unwrap(result).ok /\ Unwrap(result).err = e

\* The turns of a loop conversation that carry a tool result.
IsToolResultTurn(p, turn) ==
    CASE p = "Gemini" -> \E k \in 1..Len(turn.parts) : IsPartFunctionResponse(turn.parts[k])
      [] p = "OpenAI" -> turn.role = "tool"
      [] p = "Claude" -> \E k \in 1..Len(turn.content) : turn.content[k].type = "tool_result"

\* Every exchange so far was classified as a request for a registered tool,
\* and every execution so far returned.
AllRoundsRequestedAndExecuted ==
    /\ exchanges >= 1
    /\ Len(lookups) = exchanges
    /\ \A i \in 1..Len(lookups) : lookups[i] \in DOMAIN tools_dict
    /\ Len(calls) = exchanges
    /\ \A i \in 1..Len(calls) : ~calls[i].outcome.raises

\* C1: a loop whose every exchange is a request for a registered tool and
\* whose every tool execution succeeds ends in the max-iterations error with
\* no text, after exactly MAX_TOOL_ITERATIONS = 10 exchanges and 10
\* executions; and the max-iterations error is never reported after any other
\* number of exchanges.
C1_MaxIterationsAfterExactlyTen ==
    RunMode =>
      /\ exchanges <= 10 /\ Len(calls) <= 10
      /\ (Finished /\ AllRoundsRequestedAndExecuted) =>
            /\ FailedWith(MaxIterationsError)
            /\ exchanges = 10
            /\ Len(calls) = 10
      /\ FailedWith(MaxIterationsError) =>
            /\ exchanges = 10
            /\ Len(calls) = 10
            /\ AllRoundsRequestedAndExecuted

C1_Witness ==
    /\ RunMode
    /\ Finished
    /\ AllRoundsRequestedAndExecuted
    /\ FailedWith(MaxIterationsError)
    /\ exchanges = 10
    /\ provider = "OpenAI"

\* The latest registry lookup of a loop missed; the error a miss raises.
RequestedUnregistered ==
    /\ RunMode
    /\ lookups # <<>>
    /\ Last(lookups) \notin DOMAIN tools_dict

NotFoundCarrying(name) ==
    [exc |-> "PyKeyError", msg |-> "Tool '" \o name \o "' not found"]

\* C2: when the latest exchange of a loop asked for a name that is no key of
\* the registry, the call has failed with the not-found error carrying that
\* name, the tool log holds no execution for that request, the conversation
\* ends with the responder turn of that exchange (no tool-result turn after
\* it), and that exchange is the last one.
C2_ToolNotFoundFailsImmediately ==
    RequestedUnregistered =>
      /\ FailedWith(NotFoundCarrying(Last(lookups)))
      /\ Len(calls) = Len(lookups) - 1
      /\ exchanges = Len(lookups)
      /\ conversation = Append(Unwrap(last_sent), Last(conversation))
      /\ ~IsToolResultTurn(provider, Last(conversation))
      /\ pending = None

C2_Witness ==
    /\ RequestedUnregistered
    /\ Last(lookups) = "foo"
    /\ exchanges = 3
    /\ FailedWith(NotFoundCarrying("foo"))

\* The response content of the latest exchange, read off the wire.
Parsed200 ==
    /\ IsSome(last_received)
    /\ Unwrap(last_received).net = "ok"
    /\ is_success(Unwrap(last_received).status)
    /\ IsSome(Unwrap(last_received).parsed)
ResponseBody == Unwrap(Unwrap(last_received).parsed)

\* Claude and Gemini: the kinds of the content segments, in response order.
OrderedSegments(p, body) ==
    CASE p = "Claude" ->
           [k \in 1..Len(body.content) |->
               IF body.content[k].type = "tool_use" THEN "tool"
               ELSE IF body.content[k].type = "text" THEN "text" ELSE "other"]
      [] p = "Gemini" ->
           IF IsSome(body.candidates) /\ Len(Unwrap(body.candidates)) > 0
           THEN LET parts == Unwrap(body.candidates)[1].content.parts IN
                [k \in 1..Len(parts) |->
                    IF IsPartFunctionCall(parts[k]) THEN "tool"
                    ELSE IF IsPartText(parts[k]) THEN "text" ELSE "other"]
           ELSE <<>>
\* OpenAI: the message has one optional text and an optional tool-call list.
OpenAIToolCalls(body) ==
    IF Len(body.choices) > 0 /\ IsSome(body.choices[1].message.tool_calls)
    THEN Unwrap(body.choices[1].message.tool_calls) ELSE <<>>
OpenAIHasText(body) ==
    Len(body.choices) > 0 /\ IsSome(body.choices[1].message.content)

HasToolSegment(p, body) ==
    IF p = "OpenAI" THEN OpenAIToolCalls(body) # <<>>
    ELSE \E i \in 1..Len(OrderedSegments(p, body)) : OrderedSegments(p, body)[i] = "tool"
ToolBeforeText(p, body) ==
    IF p = "OpenAI" THEN OpenAIToolCalls(body) # <<>> /\ OpenAIHasText(body)
    ELSE LET kinds == OrderedSegments(p, body) IN
         \E i, j \in 1..Len(kinds) : i < j /\ kinds[i] = "tool" /\ kinds[j] = "text"
FirstToolIndex(p, body) ==
    CHOOSE i \in 1..Len(OrderedSegments(p, body)) :
        /\ OrderedSegments(p, body)[i] = "tool"
        /\ \A j \in 1..(i - 1) : OrderedSegments(p, body)[j] # "tool"
\* Name and arguments of the first tool-invocation segment of the response.
FirstTool(p, body) ==
    CASE p = "Claude" ->
           LET b == body.content[FirstToolIndex(p, body)]
           IN [name |-> b.name, args |-> b.input]
      [] p = "Gemini" ->
           LET part == Unwrap(body.candidates)[1].content.parts[FirstToolIndex(p, body)]
           IN [name |-> part.functionCall.name, args |-> part.functionCall.args]
      [] p = "OpenAI" ->
           LET tc == OpenAIToolCalls(body)[1]
           IN [name |-> tc.function.name,
               args |-> IF \E v \in JsonValues : to_string(v) = tc.function.arguments
                        THEN CHOOSE v \in JsonValues : to_string(v) = tc.function.arguments
                        ELSE JNull]

\* The outcome an adapter entry point produced in the adapter specification.
AdapterDone == pc = "done" /\ mode \in {"exchange", "invoke_with_response"}
AdapterOutcome ==
    IF mode = "exchange" THEN Unwrap(result).val[1] ELSE Unwrap(result).val
IsRequestedTool(tool) ==
    /\ Unwrap(result).ok
    /\ AdapterOutcome.variant = "ToolCall"
    /\ AdapterOutcome.tool_call.name = tool.name
    /\ AdapterOutcome.tool_call.args = tool.args

\* C3: in every adapter, a response with a tool-invocation segment somewhere
\* before a text segment is classified as RequestedTool with the name and
\* arguments of its first tool-invocation segment, never as FinalText.
C3_ToolBeforeTextIsRequestedTool ==
    (AdapterDone /\ Parsed200 /\ ToolBeforeText(provider, ResponseBody)) =>
        IsRequestedTool(FirstTool(provider, ResponseBody))

\* C4: in every adapter, on both entry points, a response with at least one
\* tool-invocation segment is classified as RequestedTool for the first such
\* segment, also when text segments precede it; FinalText is produced only
\* for a response with no tool-invocation segment.
C4_AnyToolSegmentIsRequestedTool ==
    (AdapterDone /\ Parsed200) =>
        /\ HasToolSegment(provider, ResponseBody) =>
              IsRequestedTool(FirstTool(provider, ResponseBody))
        /\ (Unwrap(result).ok /\ AdapterOutcome.variant = "Text") =>
              ~HasToolSegment(provider, ResponseBody)

\* C3 and C4 hold of the Claude and OpenAI adapters.
ToolPrecedenceOutsideGemini ==
    provider # "Gemini" =>
        /\ C3_ToolBeforeTextIsRequestedTool
        /\ C4_AnyToolSegmentIsRequestedTool

\* The payload a tool-result turn of a loop conversation carries.
ReturnedValue(outcome) ==
    IF outcome.value.kind = "pyobject" THEN JNull ELSE outcome.value
ObjectShaped(v) == IF v.kind = "obj" THEN v ELSE JObj([result |-> v])
CarriesPayload(p, turn, v) ==
    CASE p = "Gemini" ->
           /\ Len(turn.parts) = 1
           /\ IsPartFunctionResponse(turn.parts[1])
           /\ turn.parts[1].functionResponse.response = v
      [] p = "OpenAI" -> turn.role = "tool" /\ turn.content = to_string(v)
      [] p = "Claude" ->
           /\ Len(turn.content) = 1
           /\ turn.content[1].type = "tool_result"
           /\ turn.content[1].content = v

\* C5: in every loop, the payload of the tool-result turn appended for the
\* k-th execution is an object: the returned value itself when that is an
\* object, and {"result": v} for any other returned value v.
C5_ToolResultPayloadIsObject ==
    RunMode =>
      \A k \in 1..Len(calls) :
          ~calls[k].outcome.raises =>
              /\ 2 * k + 1 <= Len(conversation)
              /\ CarriesPayload(provider, conversation[2 * k + 1],
                                ObjectShaped(ReturnedValue(calls[k].outcome)))

\* C5 holds of the Gemini and Claude loops.
ObjectPayloadOutsideOpenAI ==
    provider # "OpenAI" => C5_ToolResultPayloadIsObject

\* The latest exchange of a loop, as the adapter classified it.
LatestExchange == exchange(provider, Unwrap(last_sent), Unwrap(last_received))
ClassifiedFinalText ==
    /\ RunMode
    /\ IsSome(last_received)
    /\ LatestExchange.ok
    /\ LatestExchange.val[1].variant = "Text"

\* C6: when exchange k+1 of a loop is classified as FinalText(t) (the k
\* exchanges before it having been requests for registered tools that
\* returned), the call has returned exactly t, after exactly k+1 exchanges
\* and k executions with k < 10, the conversation ends with the responder
\* turn of that exchange, and the call is over.
C6_FinalTextReturnsAfterKPlusOne ==
    ClassifiedFinalText =>
      /\ Finished
      /\ Unwrap(result) = [ok |-> TRUE, val |-> LatestExchange.val[1].text]
      /\ exchanges = Len(calls) + 1
      /\ Len(lookups) = Len(calls)
      /\ Len(calls) < 10
      /\ \A i \in 1..Len(calls) : ~calls[i].outcome.raises
      /\ conversation = Append(Unwrap(last_sent), LatestExchange.val[2])
      /\ pending = None

C6_Witness ==
    /\ ClassifiedFinalText
    /\ query = "What is 2+2?"
    /\ Len(calls) = 1
    /\ calls[1].kwargs = Some(ObjArgs)
    /\ exchanges = 2
    /\ Unwrap(result) = [ok |-> TRUE, val |-> "4"]

\* C7: a single-shot invocation has performed exactly one exchange and no
\* tool execution, has built and read no registry and holds no pending tool
\* call, whatever the outcome of its exchange; the tool list reached the
\* adapter only as the converted schemas.
C7_InvokeOneExchangeNoExecution ==
    mode = "invoke" =>
      /\ Finished
      /\ exchanges = 1
      /\ calls = <<>>
      /\ lookups = <<>>
      /\ DOMAIN tools_dict = {}
      /\ pending = None
      /\ conversation = <<>>
      /\ client = Some([tools |-> IF convert_tools(tools) = <<>> THEN None
                                  ELSE Some(convert_tools(tools))])

C7_Witness ==
    /\ mode = "invoke"
    /\ tools = Some(<<AddTool>>)
    /\ Unwrap(result).ok
    /\ Unwrap(result).val.variant = "ToolCall"
    /\ Unwrap(result).val.tool_call.name = "add"
    /\ calls = <<>>
    /\ exchanges = 1

\* C8: a single-shot invocation fails exactly when its exchange fails; when
\* the exchange is classified as a tool request it returns a tool-call
\* descriptor with the name of the request and the JSON text of its
\* arguments.
C8_InvokeSurfacesToolCall ==
    mode = "invoke" =>
      LET r == invoke_with_response(provider, query, Unwrap(last_received)) IN
      /\ Finished
      /\ Unwrap(result).ok <=> r.ok
      /\ (r.ok /\ r.val.variant = "ToolCall") =>
            /\ Unwrap(result).val.variant = "ToolCall"
            /\ Unwrap(result).val.tool_call.name = r.val.tool_call.name
            /\ Unwrap(result).val.tool_call.args = to_string(r.val.tool_call.args)
            /\ from_str(Unwrap(result).val.tool_call.args) = Ok(r.val.tool_call.args)
      /\ (r.ok /\ r.val.variant = "Text") =>
            Unwrap(result).val = [variant |-> "Text", text |-> r.val.text]

C8_Witness ==
    /\ mode = "invoke"
    /\ Finished
    /\ Unwrap(result).ok
    /\ Unwrap(result).val.variant = "ToolCall"
    /\ Unwrap(result).val.tool_call = [name |-> "foo", args |-> "{\"a\":2,\"b\":2}"]

\* The shape of a loop conversation: the query turn, then responder turns
\* at the even positions and tool-result turns at the odd ones.
IsQueryTurn(p, turn, q) ==
    CASE p = "Gemini" -> turn = [parts |-> <<[text |-> q]>>, role |-> Some("user")]
      [] p = "OpenAI" -> turn.role = "user" /\ turn.content = q
      [] p = "Claude" ->
           turn = [role |-> "user", content |-> <<[type |-> "text", text |-> q]>>]
IsResponderTurn(p, turn) ==
    CASE p = "Gemini" -> turn.role = Some("model")
      [] p = "OpenAI" -> turn.role = "assistant"
      [] p = "Claude" -> turn.role = "assistant"
InExchangeOrder(p, conv, q) ==
    /\ Len(conv) >= 1
    /\ IsQueryTurn(p, conv[1], q)
    /\ \A i \in 2..Len(conv) :
          IF i % 2 = 0
          THEN IsResponderTurn(p, conv[i]) /\ ~IsToolResultTurn(p, conv[i])
          ELSE IsToolResultTurn(p, conv[i]) /\ ~IsResponderTurn(p, conv[i])

\* What a step of a loop may do to the conversation and to the wire.
AppendOnlyStep ==
    /\ IsPrefix(conversation, conversation')
    /\ Len(conversation') <= Len(conversation) + 1
    /\ exchanges' # exchanges =>
          /\ last_sent' = Some(conversation)
          /\ IsSome(last_sent) =>
                /\ IsPrefix(Unwrap(last_sent), conversation)
                /\ Len(Unwrap(last_sent)) + 2 = Len(conversation)
          /\ LET r == exchange(provider, conversation, Unwrap(last_received')) IN
             conversation' = IF r.ok THEN Append(conversation, r.val[2])
                             ELSE conversation
    /\ Len(calls') # Len(calls) =>
          /\ UNCHANGED <<exchanges, last_sent>>
          /\ IF Last(calls').outcome.raises
             THEN conversation' = conversation
             ELSE /\ Len(conversation') = Len(conversation) + 1
                  /\ IsToolResultTurn(provider, Last(conversation'))

\* C9: within one loop invocation the conversation only grows at its end,
\* one turn per exchange and one per execution in the order they happen:
\* each conversation sent extends the one sent before it by exactly the
\* responder turn and the tool-result turn of the iteration between them,
\* and the turns read query, response 1, tool result 1, response 2, ...
C9_ConversationAppendOnly ==
    /\ [](RunMode /\ exchanges >= 1 => InExchangeOrder(provider, conversation, query))
    /\ [](RunMode /\ IsSome(last_sent) =>
             /\ IsPrefix(Unwrap(last_sent), conversation)
             /\ InExchangeOrder(provider, Unwrap(last_sent), query)
             /\ Len(Unwrap(last_sent)) = 2 * exchanges - 1)
    /\ [][RunMode /\ mode' = "run" => AppendOnlyStep]_vars

C9_Witness ==
    /\ RunMode
    /\ exchanges = 3
    /\ Len(Unwrap(last_sent)) = 5
    /\ Len(conversation) = 7
    /\ pc = "exchange"

\* Each tool-invocation request segment of conv has exactly one tool-result
\* segment answering it.
RequestsAnsweredOnce(p, conv) ==
    CASE p = "Claude" ->
           \A i \in 1..Len(conv) : \A k \in 1..Len(conv[i].content) :
               conv[i].content[k].type = "tool_use" =>
                   Cardinality({j \in 1..Len(conv) :
                       \E m \in 1..Len(conv[j].content) :
                           /\ conv[j].content[m].type = "tool_result"
                           /\ conv[j].content[m].tool_use_id = conv[i].content[k].id}) = 1
      [] p = "OpenAI" ->
           \A i \in 1..Len(conv) :
               IsSome(conv[i].tool_calls) =>
                   \A k \in 1..Len(Unwrap(conv[i].tool_calls)) :
                       Cardinality({j \in 1..Len(conv) :
                           /\ conv[j].role = "tool"
                           /\ conv[j].tool_call_id =
                                  Some(Unwrap(conv[i].tool_calls)[k].id)}) = 1
      [] p = "Gemini" ->
           \A i \in 1..Len(conv) :
               LET asked == {k \in 1..Len(conv[i].parts) :
                                IsPartFunctionCall(conv[i].parts[k])}
               IN asked # {} =>
                   /\ i + 1 <= Len(conv)
                   /\ Cardinality({m \in 1..Len(conv[i + 1].parts) :
                          IsPartFunctionResponse(conv[i + 1].parts[m])})
                        = Cardinality(asked)

\* C10: every conversation a loop sends answers each tool-invocation request
\* segment in it with exactly one tool-result segment (by correlation id for
\* Claude and OpenAI, by the function-response parts of the next turn for
\* Gemini).
C10_EveryRequestAnsweredOnce ==
    (RunMode /\ IsSome(last_sent)) => RequestsAnsweredOnce(provider, Unwrap(last_sent))

\* The loop was invoked and its registry came out empty.
RegistryEmpty == RunMode /\ DOMAIN tools_dict = {}
ConfigurationError ==
    [exc |-> "PyValueError",
     msg |-> "run() requires at least one callable tool. Use invoke() for tool-free calls."]

\* C11: a loop whose registry is empty has failed with the configuration
\* error, with no exchange performed, nothing sent, no client built, no tool
\* executed and no conversation started; it holds no single-shot answer.
C11_EmptyRegistryFailsImmediately ==
    RegistryEmpty =>
      /\ FailedWith(ConfigurationError)
      /\ exchanges = 0
      /\ last_sent = None
      /\ last_received = None
      /\ calls = <<>>
      /\ lookups = <<>>
      /\ conversation = <<>>
      /\ client = None

C11_Witness ==
    /\ RegistryEmpty
    /\ tools = Some(<<>>)
    /\ FailedWith(ConfigurationError)
    /\ exchanges = 0

\* The latest exchange of a loop failed in the adapter.
ExchangeFailed == RunMode /\ exchanges >= 1 /\ ~LatestExchange.ok

\* C12: when exchange number k of a loop fails in the adapter, the call has
\* failed with the adapter's error, k is the number of exchanges performed
\* (the call is over, nothing is retried), the tools executed are those of
\* the k-1 earlier rounds, and the conversation is still the one that was
\* sent: no turn was appended after the failure.
C12_AdapterFailureEndsTheLoop ==
    ExchangeFailed =>
      /\ FailedWith([exc |-> "PyRuntimeError", msg |-> LatestExchange.err])
      /\ pc = "done"
      /\ Len(calls) = exchanges - 1
      /\ Len(lookups) = exchanges - 1
      /\ pending = None
      /\ conversation = Unwrap(last_sent)
      /\ Len(conversation) = 2 * exchanges - 1

C12_Witness ==
    /\ ExchangeFailed
    /\ exchanges = 2
    /\ Len(calls) = 1
    /\ Unwrap(last_received) = Http(500, "overloaded", None)
    /\ FailedWith([exc |-> "PyRuntimeError", msg |-> "API Error 500: overloaded"])

\* The latest tool execution of a loop raised.
ExecutionFailed == RunMode /\ calls # <<>> /\ Last(calls).outcome.raises

\* C13: when the execution of a found tool fails, the call has failed with
\* the error the tool raised, the conversation ends with the responder turn
\* that requested the tool (no tool-result turn was appended for it), and the
\* exchange that requested it is the last one performed.
C13_ToolFailureEndsTheLoop ==
    ExecutionFailed =>
      /\ FailedWith([exc |-> "Exception", msg |-> "tool raised"])
      /\ pc = "done"
      /\ exchanges = Len(calls)
      /\ Last(lookups) \in DOMAIN tools_dict
      /\ Last(calls).tool = tools_dict[Last(lookups)].id
      /\ Len(conversation) = 2 * exchanges
      /\ conversation = Append(Unwrap(last_sent), Last(conversation))
      /\ ~IsToolResultTurn(provider, Last(conversation))

C13_Witness ==
    /\ ExecutionFailed
    /\ Len(calls) = 2
    /\ ~calls[1].outcome.raises
    /\ exchanges = 2
    /\ FailedWith([exc |-> "Exception", msg |-> "tool raised"])

\* A parsed response with neither a text nor a tool-invocation segment, and
\* the error an adapter gives for it.
NoRecognizableContent(p, body) ==
    IF p = "OpenAI" THEN ~OpenAIHasText(body) /\ OpenAIToolCalls(body) = <<>>
    ELSE \A i \in 1..Len(OrderedSegments(p, body)) :
             OrderedSegments(p, body)[i] = "other"
NoResponseError(p) ==
    IF p = "Gemini" THEN "No valid response from Gemini" ELSE "No response generated."

\* C14: an adapter exchange that succeeds yields exactly one outcome, a text
\* or a tool call, and a parsed response with no text segment and no
\* tool-invocation segment (empty content, no candidates or choices, only
\* tool-result segments) makes it fail with the no-response error.
C14_OneOutcomeOrNoResponse ==
    (AdapterDone /\ IsSome(result)) =>
      /\ Unwrap(result).ok =>
            \/ /\ AdapterOutcome.variant = "Text"
               /\ DOMAIN AdapterOutcome = {"variant", "text"}
            \/ /\ AdapterOutcome.variant = "ToolCall"
               /\ DOMAIN AdapterOutcome = {"variant", "tool_call"}
      /\ (Parsed200 /\ NoRecognizableContent(provider, ResponseBody)) =>
            /\ ~Unwrap(result).ok
            /\ Unwrap(result).err = NoResponseError(provider)

C14_Witness ==
    /\ AdapterDone
    /\ mode = "exchange"
    /\ provider = "Claude"
    /\ Parsed200
    /\ ResponseBody = MessagesResponse(<<SegResult, SegResult>>, 1)
    /\ Unwrap(result) = Err("No response generated.")

\* A tool-result turn was appended after the latest exchange of the loop; the
\* correlation key of the first tool request of a responder turn.
ToolResultAppended ==
    /\ RunMode
    /\ exchanges >= 1
    /\ Len(conversation) = Len(Unwrap(last_sent)) + 2
    /\ IsToolResultTurn(provider, Last(conversation))
FirstRequestKey(p, turn) ==
    CASE p = "Claude" ->
           LET uses == {k \in 1..Len(turn.content) : turn.content[k].type = "tool_use"}
           IN turn.content[CHOOSE k \in uses : \A j \in uses : k <= j].id
      [] p = "OpenAI" -> Unwrap(turn.tool_calls)[1].id
      [] p = "Gemini" ->
           LET asks == {k \in 1..Len(turn.parts) : IsPartFunctionCall(turn.parts[k])}
           IN turn.parts[CHOOSE k \in asks : \A j \in asks : k <= j].functionCall.name
ResultKey(p, turn) ==
    CASE p = "Claude" -> turn.content[1].tool_use_id
      [] p = "OpenAI" -> Unwrap(turn.tool_call_id)
      [] p = "Gemini" -> turn.parts[1].functionResponse.name

\* C15: the tool-result turn a loop appends answers the tool request the
\* preceding exchange returned: in the Claude and OpenAI loops its
\* correlation id is that request's id, in the Gemini loop the function
\* response has no id field and carries that request's name; and every
\* tool-result turn of the conversation is keyed to the first request of the
\* responder turn right before it.
C15_ToolResultCorrelatesWithRequest ==
    /\ ToolResultAppended =>
         /\ LatestExchange.ok
         /\ LatestExchange.val[1].variant = "ToolCall"
         /\ LET request == LatestExchange.val[1].tool_call
                turn == Last(conversation)
            IN CASE provider = "Claude" ->
                      /\ Len(turn.content) = 1
                      /\ turn.content[1].tool_use_id = request.id
                 [] provider = "OpenAI" ->
                      /\ turn.tool_call_id = Some(request.id)
                 [] provider = "Gemini" ->
                      /\ Len(turn.parts) = 1
                      /\ DOMAIN turn.parts[1].functionResponse = {"name", "response"}
                      /\ DOMAIN request = {"name", "args"}
                      /\ turn.parts[1].functionResponse.name = request.name
    /\ RunMode =>
         \A i \in 2..Len(conversation) :
             IsToolResultTurn(provider, conversation[i]) =>
                 ResultKey(provider, conversation[i])
                     = FirstRequestKey(provider, conversation[i - 1])

C15_Witness ==
    /\ ToolResultAppended
    /\ provider = "Claude"
    /\ Len(conversation) = 5
    /\ conversation[3].content[1].tool_use_id = "call_1_1"
    /\ conversation[5].content[1].tool_use_id = "call_2_1"

\* An entry point of an adapter has been called; it has returned.
EntryCalled == mode \in UNION {EntryPoints(p) : p \in Providers}
EntryReturned == EntryCalled /\ pc = "done"

\* C16: an invocation of an adapter entry point never has more than one
\* outbound request behind it, and has exactly one when it returns, whatever
\* the responses were.
C16_OneRequestPerInvocation ==
    EntryCalled =>
      /\ exchanges <= 1
      /\ EntryReturned => exchanges = 1

\* C16 holds of every entry point but Gemini::invoke.
OneRequestOutsideGeminiInvoke ==
    ~(provider = "Gemini" /\ mode = "invoke") => C16_OneRequestPerInvocation

\* The adapter result behind the latest exchange of a core call (run or
\* invoke), and the stage at which a transport outcome makes an adapter fail.
CoreCall == mode \in {"run", "invoke"} /\ exchanges >= 1
LatestAdapterResult ==
    IF mode = "run" THEN LatestExchange
    ELSE invoke_with_response(provider, query, Unwrap(last_received))
AdapterResultFor(w) ==
    IF mode = "run" THEN exchange(provider, Unwrap(last_sent), w)
    ELSE invoke_with_response(provider, query, w)
FailureStage(w) ==
    IF w.net = "err" THEN "Network"
    ELSE IF ~is_success(w.status) THEN "Api"
    ELSE IF ~IsSome(w.parsed) THEN "ParseError"
    ELSE "NoResponse"
ResponseStages == {"Api", "ParseError", "NoResponse"}

\* The order of the failure checks: status first (the body is not looked
\* at), then parsing, then content; each with its own message.
FailuresInFixedOrder ==
    (CoreCall /\ ~LatestAdapterResult.ok) =>
        LET w == Unwrap(last_received) IN
        /\ FailedWith(map_err(LatestAdapterResult.err))
        /\ LatestAdapterResult.err =
             CASE FailureStage(w) = "Network" -> "Failed to send request: " \o w.text
               [] FailureStage(w) = "Api" ->
                    "API Error " \o ToString(w.status) \o ": " \o w.text
               [] FailureStage(w) = "ParseError" -> "Failed to parse response: " \o w.text
               [] FailureStage(w) = "NoResponse" -> NoResponseError(provider)

\* C17: a failed exchange of a core call is classified in the fixed order
\* status, parsing, content, and the error the caller receives is of a kind
\* that no failure of another of these three stages would have produced.
C17_FailureKindsDistinctInOrder ==
    /\ FailuresInFixedOrder
    /\ (CoreCall /\ ~LatestAdapterResult.ok
           /\ FailureStage(Unwrap(last_received)) \in ResponseStages) =>
          \A w2 \in Wire(provider, exchanges) :
              (/\ ~AdapterResultFor(w2).ok
               /\ FailureStage(w2) \in ResponseStages
               /\ FailureStage(w2) # FailureStage(Unwrap(last_received)))
              => map_err(AdapterResultFor(w2).err).exc # Unwrap(result).err.exc

\* A core call (run or invoke) has performed its first exchange and no other.
AfterFirstExchange == mode \in {"run", "invoke"} /\ exchanges = 1

\* C18: in any sequence of run and invoke calls on one model object, the
\* conversation sent on the first exchange of a call is exactly one
\* requester turn holding that call's query, and a loop's conversation
\* holds only turns of its own call: its query turn, then one responder turn
\* per exchange and one tool-result turn per execution.
C18_FreshConversationPerCall ==
    /\ AfterFirstExchange =>
         /\ Len(Unwrap(last_sent)) = 1
         /\ IsQueryTurn(provider, Unwrap(last_sent)[1], query)
    /\ (RunMode /\ pc # "done") =>
         /\ InExchangeOrder(provider, conversation, query)
         /\ Len(conversation) = 1 + exchanges + iteration
    /\ (RunMode /\ exchanges >= 1) =>
         /\ IsQueryTurn(provider, Unwrap(last_sent)[1], query)
         /\ Len(Unwrap(last_sent)) = 2 * exchanges - 1

\* An invoke with another query right after a loop that left its
\* conversation behind.
C18_Witness ==
    /\ AfterFirstExchange
    /\ mode = "invoke"
    /\ query = "Capital of France?"
    /\ Len(conversation) = 21
    /\ IsQueryTurn(provider, conversation[1], DefaultQuery)
    /\ Len(Unwrap(last_sent)) = 1
    /\ IsQueryTurn(provider, Unwrap(last_sent)[1], "Capital of France?")

\* What a call holds is what that call produced, and what it returned is
\* what the same call returns when no other call is in progress: for a
\* single-shot call the conversion of its one response, for a loop (the
\* backend asks for add on every exchange) what its registry determines.
NameableTools(t) ==
    {Unwrap(tools_of(t)[i].name) :
        i \in {j \in 1..Len(tools_of(t)) : IsSome(tools_of(t)[j].name)}}
AloneResult(f) ==
    IF f.mode = "invoke"
    THEN LET r == invoke_with_response(f.provider, f.query, Unwrap(f.last_received))
         IN IF r.ok THEN [ok |-> TRUE, val |-> agent_response(r.val)]
            ELSE [ok |-> FALSE, err |-> map_err(r.err)]
    ELSE IF NameableTools(f.tools) = {}
    THEN [ok |-> FALSE, err |-> ConfigurationError]
    ELSE IF "add" \in NameableTools(f.tools)
    THEN [ok |-> FALSE,
          err |-> [exc |-> "PyRuntimeError",
                   msg |-> "Max iterations reached without getting a final answer"]]
    ELSE [ok |-> FALSE, err |-> NotFoundCarrying("add")]
FrameOwnsItsState(f) ==
    /\ f.mode = "run" =>
         /\ DOMAIN f.tools_dict = NameableTools(f.tools)
         /\ f.iteration = Len(f.calls)
         /\ Len(f.lookups) = f.exchanges
         /\ \A i \in 1..Len(f.calls) : f.calls[i].tool = f.tools_dict["add"].id
         /\ f.exchanges >= 1 =>
              /\ InExchangeOrder(f.provider, f.conversation, f.query)
              /\ Len(f.conversation) = 1 + f.exchanges + f.iteration
              /\ IsPrefix(Unwrap(f.last_sent), f.conversation)
              /\ \A i \in 2..Len(f.conversation) :
                     IsToolResultTurn(f.provider, f.conversation[i]) =>
                         ResultKey(f.provider, f.conversation[i])
                             = FirstRequestKey(f.provider, f.conversation[i - 1])
    /\ f.mode = "invoke" =>
         /\ f.exchanges = 1
         /\ f.calls = <<>>
         /\ f.iteration = 0
         /\ Len(Unwrap(f.last_sent)) = 1
         /\ IsQueryTurn(f.provider, Unwrap(f.last_sent)[1], f.query)
    /\ f.pc = "done" => Unwrap(f.result) = AloneResult(f)

\* A call with no other call in progress owns its state and returns
\* AloneResult (checked on the sequential specification).
AloneCallOwnsItsState == other = None => FrameOwnsItsState(RunningFrame)

\* C19: with two top-level calls in progress in any interleaving, the
\* conversation, iteration counter, registry and tool log of each call hold
\* only what that call produced, and each finished call returned what it
\* returns when run alone against the same responses.
C19_ConcurrentCallsIsolated ==
    IsSome(other) =>
      /\ FrameOwnsItsState(RunningFrame)
      /\ FrameOwnsItsState(Unwrap(other))

C19_Witness ==
    /\ IsSome(other)
    /\ provider = "Claude" /\ mode = "run" /\ pc = "tool"
    /\ query = DefaultQuery /\ exchanges = 3 /\ iteration = 2
    /\ Unwrap(other).provider = "Gemini" /\ Unwrap(other).mode = "run"
    /\ Unwrap(other).pc = "exchange" /\ Unwrap(other).query = "Capital of France?"
    /\ Unwrap(other).exchanges = 5 /\ Unwrap(other).iteration = 5

\* C20: the registry a loop builds holds exactly the supplied tools that
\* have a name, each under its name; a nameless tool raises nothing; the
\* loop goes on to its first exchange iff some supplied tool has a name, and
\* has failed with the configuration error, with no exchange, when none has.
C20_NamelessToolsExcluded ==
    RunMode =>
      /\ DOMAIN tools_dict = NameableTools(tools)
      /\ \A nm \in DOMAIN tools_dict :
            \E i \in 1..Len(tools_of(tools)) :
                /\ tools_of(tools)[i] = tools_dict[nm]
                /\ tools_of(tools)[i].name = Some(nm)
      /\ NameableTools(tools) # {} =>
            /\ ~FailedWith(ConfigurationError)
            /\ pc = "exchange" \/ exchanges >= 1
      /\ NameableTools(tools) = {} =>
            /\ FailedWith(ConfigurationError)
            /\ exchanges = 0

C20_Witness ==
    /\ RunMode
    /\ tools = Some(<<NamelessTool, AddTool>>)
    /\ DOMAIN tools_dict = {"add"}
    /\ exchanges = 1
    /\ pc = "tool"

\* The backends whose table has an entry that is a prefix of the identifier,
\* and the scan of the tables in a given order.
MatchingBackends(id) ==
    {p \in Providers :
        table_matches(CASE p = "OpenAI" -> OPENAI_MODELS
                        [] p = "Claude" -> CLAUDE_MODELS
                        [] p = "Gemini" -> GEMINI_MODELS, id)}
RECURSIVE ScanInOrder(_, _)
ScanInOrder(order, id) ==
    IF order = <<>> THEN "none"
    ELSE IF order[1] \in MatchingBackends(id) THEN order[1]
    ELSE ScanInOrder(Tail(order), id)
TableOrders ==
    {o \in [1..3 -> Providers] : \A i, j \in 1..3 : i # j => o[i] # o[j]}
TableOf(p) ==
    CASE p = "OpenAI" -> OPENAI_MODELS
      [] p = "Claude" -> CLAUDE_MODELS
      [] p = "Gemini" -> GEMINI_MODELS

\* C21: create_agent on an identifier that no table entry is a prefix of
\* fails with the configuration error naming it and leaves no agent (no
\* exchange follows); on an identifier with a matching entry it yields the
\* agent of that entry's backend holding the identifier; no entry of one
\* table is a prefix of, or has as prefix, an entry of another, so exactly one
\* backend matches and every scan order of the tables gives the same result.
C21_AgentFromModelPrefix ==
    /\ provider = "none" =>
         /\ pc = "no agent" /\ model = None /\ exchanges = 0 /\ last_sent = None
         /\ IsSome(result) =>
              \E id \in ModelIds :
                  /\ MatchingBackends(id) = {}
                  /\ Unwrap(result) = [ok |-> FALSE, err |-> UnknownModelError(id)]
    /\ IsSome(model) =>
         /\ MatchingBackends(Unwrap(model)) = {provider}
         /\ \A o \in TableOrders : ScanInOrder(o, Unwrap(model)) = provider
    /\ pc = "no agent" =>
         /\ \A id \in ModelIds :
              LET detected == detect_provider(id) IN
              /\ detected.ok <=> MatchingBackends(id) # {}
              /\ \A o \in TableOrders :
                     ScanInOrder(o, id) = IF detected.ok THEN detected.val ELSE "none"
         /\ \A p1, p2 \in Providers :
              p1 # p2 =>
                 \A i \in 1..Len(TableOf(p1)), j \in 1..Len(TableOf(p2)) :
                     ~starts_with(TableOf(p1)[i], TableOf(p2)[j])

C21_Witness ==
    /\ model = Some(<<"g", "e", "m", "i", "n", "i", "-", "p", "r", "o", "-", "x">>)
    /\ provider = "Gemini"
    /\ mode = "invoke"
    /\ exchanges = 1

\* C22: for each backend, a responder turn written in the wire shape of the
\* backend and read back through the response parsing of the adapter gives
\* the same outcome (the same text, or the same tool name and arguments) and
\* the same turn; the tool request keeps its id for Claude and OpenAI and
\* has none for Gemini.
C22_TurnRoundTrip ==
    pc = "echoed" =>
       /\ Unwrap(last_received).parsed # None
       /\ Unwrap(result).ok
       /\ Unwrap(result).val[1] = Unwrap(pending)[1]
       /\ Unwrap(result).val[2] = Unwrap(pending)[2]
       /\ Unwrap(result).val[1].variant = "ToolCall" =>
            ("id" \in DOMAIN Unwrap(result).val[1].tool_call) <=> (provider # "Gemini")

C22_Witness ==
    /\ pc = "echoed"
    /\ provider = "OpenAI"
    /\ Unwrap(result).ok
    /\ Unwrap(result).val[1].variant = "ToolCall"
    /\ Unwrap(result).val[1].tool_call.name = "foo"
    /\ Unwrap(result).val[1].tool_call.args = JNum(7)
    /\ Unwrap(result).val[1].tool_call.id = ToolId(1, 2)
    /\ Unwrap(result).val[2].content = "4"

\* C23: the max-iterations error is reported only when all ten exchanges
\* were tool requests and all ten tools were executed; a loop whose first
\* nine exchanges were requests for registered tools that returned and whose
\* tenth exchange is FinalText(t) returns t, after exactly 10 exchanges and 9
\* executions; and the tool requested by the tenth exchange is executed
\* before the max-iterations error is reported.
C23_TenthExchangeStillCounts ==
    RunMode =>
      /\ FailedWith(MaxIterationsError) =>
            /\ exchanges = 10
            /\ Len(lookups) = 10
            /\ Len(calls) = 10
            /\ calls[10].tool = tools_dict[lookups[10]].id
            /\ ~calls[10].outcome.raises
      /\ (exchanges = 10 /\ ClassifiedFinalText) =>
            /\ Finished
            /\ Unwrap(result) = [ok |-> TRUE, val |-> LatestExchange.val[1].text]
            /\ Len(calls) = 9
            /\ Len(lookups) = 9
      /\ (exchanges = 10 /\ pc = "tool") =>
            /\ result = None
            /\ Len(calls) = 9
            /\ Len(lookups) = 10

C23_Witness ==
    /\ RunMode
    /\ exchanges = 10
    /\ ClassifiedFinalText
    /\ Len(calls) = 9
    /\ \A i \in 1..9 : lookups[i] = "add" /\ ~calls[i].outcome.raises
    /\ Unwrap(result) = [ok |-> TRUE, val |-> "4"]

\* The latest exchange of a loop asked for a tool and that tool has run.
LatestToolExecuted ==
    /\ RunMode
    /\ exchanges >= 1
    /\ Len(calls) = exchanges
    /\ LatestExchange.ok
    /\ LatestExchange.val[1].variant = "ToolCall"

\* Arguments that are a JSON object reach the tool, as its keyword arguments.
ObjectArgumentsArePassed ==
    (LatestToolExecuted /\ LatestExchange.val[1].tool_call.args.kind = "obj") =>
        Last(calls).kwargs = Some(LatestExchange.val[1].tool_call.args)

\* C24: in every loop a found tool is executed with the arguments value of
\* the request, whatever its shape (object, array or scalar): the tool is
\* never called with the arguments dropped.
C24_ToolReceivesArguments ==
    LatestToolExecuted =>
        Last(calls).kwargs = Some(LatestExchange.val[1].tool_call.args)

\* The texts of the text segments of a response, in response order.
TextSegments(p, body) ==
    CASE p = "Claude" ->
           LET texts == SelectSeq(body.content, LAMBDA b : b.type = "text")
           IN [k \in 1..Len(texts) |-> texts[k].text]
      [] p = "Gemini" ->
           IF IsSome(body.candidates) /\ Len(Unwrap(body.candidates)) > 0
           THEN LET texts == SelectSeq(Unwrap(body.candidates)[1].content.parts,
                                       LAMBDA part : IsPartText(part))
                IN [k \in 1..Len(texts) |-> texts[k].text]
           ELSE <<>>
      [] p = "OpenAI" ->
           IF OpenAIHasText(body) THEN <<Unwrap(body.choices[1].message.content)>>
           ELSE <<>>

\* C25: in every adapter, on both entry points, a response with no
\* tool-invocation segment and at least one text segment is classified as
\* FinalText carrying exactly the first text segment in response order; a
\* later text segment neither replaces it nor is concatenated to it.
C25_FirstTextIsFinalText ==
    (/\ AdapterDone
     /\ Parsed200
     /\ ~HasToolSegment(provider, ResponseBody)
     /\ TextSegments(provider, ResponseBody) # <<>>) =>
        /\ Unwrap(result).ok
        /\ AdapterOutcome.variant = "Text"
        /\ AdapterOutcome.text = TextSegments(provider, ResponseBody)[1]

C25_Witness ==
    /\ AdapterDone
    /\ provider = "Claude"
    /\ Parsed200
    /\ ResponseBody = MessagesResponse(<<SegResult, SegText("5"), SegText("4")>>, 1)
    /\ Unwrap(result).ok
    /\ AdapterOutcome = ClaudeResponseText("5")

\* The content segments of a parsed response, and those of a responder turn,
\* in order.  An OpenAI message is its content string (none is the empty
\* string) followed by its tool calls.
ResponseSegments(p, body) ==
    CASE p = "Claude" -> body.content
      [] p = "Gemini" -> Unwrap(body.candidates)[1].content.parts
      [] p = "OpenAI" ->
           <<IF OpenAIHasText(body) THEN Unwrap(body.choices[1].message.content)
             ELSE "">> \o OpenAIToolCalls(body)
TurnSegments(p, turn) ==
    CASE p = "Claude" -> turn.content
      [] p = "Gemini" -> turn.parts
      [] p = "OpenAI" ->
           <<turn.content>> \o (IF IsSome(turn.tool_calls) THEN Unwrap(turn.tool_calls)
                                ELSE <<>>)
TurnRole(p, turn) == IF p = "Gemini" THEN turn.role ELSE Some(turn.role)

\* C26: after a successful exchange of a loop, the turn appended to the
\* conversation is the responder turn the exchange returned, and it holds
\* every content segment of the response in the order of the response, the
\* ones that were not selected as the outcome included (text next to a tool
\* call, later tool calls), whatever the outcome is.
C26_ResponderTurnKeepsEverySegment ==
    (RunMode /\ exchanges >= 1 /\ Parsed200 /\ LatestExchange.ok) =>
        /\ Len(conversation) > Len(Unwrap(last_sent))
        /\ IsPrefix(Unwrap(last_sent), conversation)
        /\ LET turn == conversation[Len(Unwrap(last_sent)) + 1] IN
           /\ turn = LatestExchange.val[2]
           /\ TurnSegments(provider, turn) = ResponseSegments(provider, ResponseBody)
           /\ TurnRole(provider, turn)
                = Some(IF provider = "Gemini" THEN "model" ELSE "assistant")

C26_Witness ==
    /\ RunMode
    /\ provider = "Claude"
    /\ exchanges = 1
    /\ Parsed200
    /\ ResponseBody = MessagesResponse(<<SegText("thinking"), SegCall("add", ObjArgs)>>, 1)
    /\ LatestExchange.val[1].variant = "ToolCall"
    /\ pc = "tool"
    /\ conversation[2].content
         = <<ClaudeText("thinking"), ClaudeToolUse(ToolId(1, 2), "add", ObjArgs)>>

\* C27: within one loop the events are totally ordered exchange 1, tool
\* execution 1, exchange 2, tool execution 2, ...: a request is sent only
\* when the tool of every earlier exchange has run, none is pending and the
\* conversation sent ends with the result turn of the latest execution; a
\* tool runs only for the latest exchange, one at a time, and never twice
\* between two exchanges.
C27_ExchangesAndToolsAlternate ==
    /\ [](RunMode => (Len(calls) <= exchanges /\ exchanges <= Len(calls) + 1))
    /\ [][RunMode =>
           /\ (exchanges' # exchanges) =>
                 /\ exchanges' = exchanges + 1
                 /\ calls' = calls
                 /\ Len(calls) = exchanges
                 /\ pending = None
                 /\ last_sent' = Some(conversation)
                 /\ Len(conversation) = 2 * exchanges + 1
                 /\ exchanges >= 1 => IsToolResultTurn(provider, Last(conversation))
           /\ (calls' # calls) =>
                 /\ exchanges' = exchanges
                 /\ Len(calls') = Len(calls) + 1
                 /\ Len(calls') = exchanges
                 /\ SubSeq(calls', 1, Len(calls)) = calls
                 /\ IsSome(pending) /\ pending' = None
                 /\ Unwrap(last_received).net = "ok"]_vars

C27_Witness ==
    /\ RunMode
    /\ exchanges = 3
    /\ Len(calls) = 3
    /\ pc = "exchange"
    /\ pending = None
    /\ Len(conversation) = 7
    /\ IsToolResultTurn(provider, Last(conversation))

\* The position of the last tool of the list that has the given name.
LastNamed(list, nm) ==
    CHOOSE i \in 1..Len(list) :
        /\ list[i].name = Some(nm)
        /\ \A j \in 1..Len(list) : list[j].name = Some(nm) => j <= i
HasDuplicateNames(list) ==
    \E i, j \in 1..Len(list) : i < j /\ IsSome(list[i].name) /\ list[i].name = list[j].name

\* C28: the registry of a loop has one entry per name, bound to the last
\* supplied tool of that name; two tools of the same name raise no error,
\* and a request for the name executes that later tool, once, and never the
\* earlier one.
C28_LaterToolReplacesSameName ==
    RunMode =>
      /\ \A nm \in DOMAIN tools_dict :
            tools_dict[nm] = tools_of(tools)[LastNamed(tools_of(tools), nm)]
      /\ HasDuplicateNames(tools_of(tools)) => ~FailedWith(ConfigurationError)
      /\ Len(calls) <= Len(lookups)
      /\ \A i \in 1..Len(calls) :
            calls[i].tool = tools_of(tools)[LastNamed(tools_of(tools), lookups[i])].id

C28_Witness ==
    /\ RunMode
    /\ tools = Some(<<AddTool, [id |-> 2, name |-> Some("add"), to_dict |-> None]>>)
    /\ DOMAIN tools_dict = {"add"}
    /\ exchanges = 2
    /\ Len(calls) = 2
    /\ calls[1].tool = 2 /\ calls[2].tool = 2

\* The first tool call of an OpenAI response carries an arguments string
\* that is not the text of a JSON value.
OpenAIBadArguments(body) ==
    /\ OpenAIToolCalls(body) # <<>>
    /\ ~from_str(OpenAIToolCalls(body)[1].function.arguments).ok

\* C29: an OpenAI response whose tool call has an arguments string that is
\* not valid JSON does not make the exchange fail: the outcome is
\* RequestedTool with the name and the id of that tool call and null as its
\* arguments.
C29_BadArgumentsBecomeNull ==
    (/\ AdapterDone
     /\ provider = "OpenAI"
     /\ Parsed200
     /\ OpenAIBadArguments(ResponseBody)) =>
        /\ Unwrap(result).ok
        /\ AdapterOutcome =
             OpenAIResponseToolCall(OpenAIToolCalls(ResponseBody)[1].function.name,
                                    JNull,
                                    OpenAIToolCalls(ResponseBody)[1].id)

C29_Witness ==
    /\ AdapterDone
    /\ mode = "exchange"
    /\ provider = "OpenAI"
    /\ Parsed200
    /\ OpenAIBadArguments(ResponseBody)
    /\ OpenAIToolCalls(ResponseBody)[1].function.arguments = "{\"a\": 2,"
    /\ Unwrap(result).ok
    /\ Unwrap(result).val[1] = OpenAIResponseToolCall("add", JNull, ToolId(1, 1))

\* C30: the conversation sent on exchange k of a loop (1 <= k <= 10) has
\* exactly 2k - 1 turns: the query turn, then k - 1 pairs of a responder turn
\* and a tool-result turn, strictly alternating; the last turn sent is never
\* a responder turn.
C30_SentConversationHasTwoKMinusOneTurns ==
    (RunMode /\ exchanges >= 1) =>
      LET sent == Unwrap(last_sent) IN
      /\ exchanges <= 10
      /\ Len(sent) = 2 * exchanges - 1
      /\ IsQueryTurn(provider, sent[1], query)
      /\ \A j \in 1..(exchanges - 1) :
            /\ IsResponderTurn(provider, sent[2 * j])
            /\ ~IsToolResultTurn(provider, sent[2 * j])
            /\ IsToolResultTurn(provider, sent[2 * j + 1])
            /\ ~IsResponderTurn(provider, sent[2 * j + 1])
      /\ ~IsResponderTurn(provider, Last(sent))

C30_Witness ==
    /\ RunMode
    /\ provider = "OpenAI"
    /\ exchanges = 10
    /\ Len(Unwrap(last_sent)) = 19
    /\ Unwrap(last_sent)[18].role = "assistant"
    /\ Unwrap(last_sent)[19].role = "tool"

\* A loop is over with a returned text or with one error.
TerminalOutcome ==
    /\ pc = "done"
    /\ IsSome(result)
    /\ \/ Unwrap(result).ok /\ DOMAIN Unwrap(result) = {"ok", "val"}
       \/ ~Unwrap(result).ok /\ DOMAIN Unwrap(result) = {"ok", "err"}

\* C31: every exchange and every tool execution returning, every loop
\* reaches a terminal outcome, a returned text or one error, after at most 10
\* exchanges and at most 10 tool executions, whatever the backend answers and
\* the tools return; nothing is reported before the end, and once the outcome
\* is there no exchange and no tool execution follows and the outcome stays.
C31_LoopTerminates ==
    /\ [](RunMode => /\ exchanges <= 10
                     /\ Len(calls) <= 10
                     /\ pc # "done" => result = None
                     /\ pc = "done" => TerminalOutcome)
    /\ [][(RunMode /\ pc = "done") =>
              UNCHANGED <<pc, result, exchanges, calls, conversation>>]_vars
    /\ [](RunMode /\ pc = "done" => ~ENABLED run_exchange /\ ~ENABLED run_tool)
    /\ (RunMode ~> TerminalOutcome)

C31_Witness ==
    /\ RunMode
    /\ TerminalOutcome
    /\ FailedWith(ToolException)
    /\ exchanges = 10
    /\ Len(calls) = 10
    /\ calls[10].outcome.raises

\* The payload of a Gemini or Claude tool-result turn.
PayloadOf(p, turn) ==
    IF p = "Gemini" THEN turn.parts[1].functionResponse.response
    ELSE turn.content[1].content

\* C32: wrap_tool_result always returns an object, returns an object
\* unchanged, returns the one-key object {"result": v} for any other value v,
\* and applied twice gives what it gives applied once; so does the payload
\* it produced for the latest tool result of a Gemini or Claude loop.
C32_WrapToolResultIdempotent ==
    /\ \A v \in JsonValues :
          LET w == wrap_tool_result(v) IN
          /\ w.kind = "obj"
          /\ v.kind = "obj" => w = v
          /\ v.kind # "obj" => (DOMAIN w.obj = {"result"} /\ w.obj.result = v)
          /\ wrap_tool_result(w) = w
    /\ (ToolResultAppended /\ provider # "OpenAI") =>
          LET v == ReturnedValue(Last(calls).outcome)
              payload == PayloadOf(provider, Last(conversation))
          IN /\ payload = wrap_tool_result(v)
             /\ payload.kind = "obj"
             /\ v.kind = "obj" => payload = v
             /\ v.kind # "obj" => payload = [kind |-> "obj", obj |-> [result |-> v]]
             /\ wrap_tool_result(payload) = payload

C32_Witness ==
    /\ ToolResultAppended
    /\ provider = "Claude"
    /\ Last(calls).outcome = Returns(JNum(42))
    /\ PayloadOf(provider, Last(conversation)) = JObj([result |-> JNum(42)])

====
